---- MODULE Spec2Model ----
(***************************************************************************)
(* memory-mcp: the retrieval-and-lifecycle service (internal/memory) over  *)
(* the SQLite store (internal/store), and the MCP server (internal/mcp)    *)
(* that reads requests from a byte stream and writes the replies.          *)
(*                                                                         *)
(* Text is a sequence of one-character strings.  A point in time is a      *)
(* number of ticks; the store keeps every timestamp as the text that       *)
(* time.Format(RFC3339Nano) produces and SQLite compares those texts byte  *)
(* by byte, so the model formats, compares and parses them the same way.   *)
(***************************************************************************)
EXTENDS Integers, Sequences, FiniteSets, TLC

(***************************************************************************)
(* Bounds of the model.                                                    *)
(***************************************************************************)
\* rows ever inserted into the memories table
MaxEntries == 2
\* ticks the clock advances past StartTime
MaxTime == 3
\* rows ever inserted while the clock stands still (the retrieval runs)
MaxTexts == 3
\* messages on the server's input stream
MaxMessages == 2

(***************************************************************************)
(* Characters and strings.                                                 *)
(***************************************************************************)
Ascii ==
  << " ", "!", "dquote", "#", "$", "%", "&", "'", "(", ")", "*", "+", ",", "-", ".", "/",
     "0", "1", "2", "3", "4", "5", "6", "7", "8", "9", ":", ";", "<", "=", ">", "?",
     "@", "A", "B", "C", "D", "E", "F", "G", "H", "I", "J", "K", "L", "M", "N", "O",
     "P", "Q", "R", "S", "T", "U", "V", "W", "X", "Y", "Z", "[", "bslash", "]", "^", "_",
     "btick", "a", "b", "c", "d", "e", "f", "g", "h", "i", "j", "k", "l", "m", "n", "o",
     "p", "q", "r", "s", "t", "u", "v", "w", "x", "y", "z", "{", "|", "}", "~" >>

AsciiChars == {Ascii[i] : i \in DOMAIN Ascii}

\* the byte value of a character (memcmp order of SQLite's BINARY collation)
Code == [c \in AsciiChars |-> 31 + (CHOOSE i \in DOMAIN Ascii : Ascii[i] = c)]

IsUpper(c) == Code[c] >= 65 /\ Code[c] <= 90
IsLower(c) == Code[c] >= 97 /\ Code[c] <= 122
IsDigit(c) == Code[c] >= 48 /\ Code[c] <= 57
IsLetter(c) == IsUpper(c) \/ IsLower(c)
IsSpace(c) == c \in {" ", "\t", "\n", "\r"}

\* unicode.ToLower on one rune
ToLowerRune(c) == IF IsUpper(c) THEN Ascii[Code[c] + 32 - 31] ELSE c

\* strings.ToLower
ToLower(s) == [i \in DOMAIN s |-> ToLowerRune(s[i])]

\* strings.TrimSpace
TrimSpace(s) ==
  IF \A i \in DOMAIN s : IsSpace(s[i]) THEN << >>
  ELSE LET lo == CHOOSE i \in DOMAIN s :
                   ~IsSpace(s[i]) /\ \A j \in 1..(i - 1) : IsSpace(s[j])
           hi == CHOOSE i \in DOMAIN s :
                   ~IsSpace(s[i]) /\ \A j \in (i + 1)..Len(s) : IsSpace(s[j])
       IN  SubSeq(s, lo, hi)

\* strings.Split(s, sep) for a one-character separator, on s[lo..hi]: the
\* pieces of the two halves, the last piece of the left half running on into
\* the first of the right
RECURSIVE SplitAt(_, _, _, _)
SplitAt(s, sep, lo, hi) ==
  IF lo > hi THEN << << >> >>
  ELSE IF lo = hi THEN (IF s[lo] = sep THEN << << >>, << >> >> ELSE << << s[lo] >> >>)
  ELSE LET mid == (lo + hi) \div 2
           L == SplitAt(s, sep, lo, mid)
           R == SplitAt(s, sep, mid + 1, hi)
       IN  SubSeq(L, 1, Len(L) - 1) \o << L[Len(L)] \o R[1] >> \o SubSeq(R, 2, Len(R))

Split(s, sep) == SplitAt(s, sep, 1, Len(s))

\* strings.Fields: the maximal runs of non-space characters
Fields(s) == SelectSeq(Split(s, " "), LAMBDA f : f # << >>)

\* strings.Join(parts, sep)
RECURSIVE Join(_, _)
Join(parts, sep) ==
  IF parts = << >> THEN << >>
  ELSE IF Len(parts) = 1 THEN parts[1]
  ELSE parts[1] \o sep \o Join(Tail(parts), sep)

\* bytewise order of two strings, as SQLite compares TEXT values
StrLess(a, b) ==
  \/ \E k \in 1..Len(a) :
        /\ k <= Len(b)
        /\ Code[a[k]] < Code[b[k]]
        /\ \A j \in 1..(k - 1) : a[j] = b[j]
  \/ /\ Len(a) < Len(b)
     /\ \A j \in 1..Len(a) : a[j] = b[j]

StrLeq(a, b) == a = b \/ StrLess(a, b)

\* a is a substring of b, ASCII case folded (SQLite's LIKE '%a%')
LikeContains(b, a) ==
  \E i \in 1..(Len(b) - Len(a) + 1) :
     \A j \in 1..Len(a) : ToLowerRune(b[i + j - 1]) = ToLowerRune(a[j])

(***************************************************************************)
(* Time.  A tick is 1/TicksPerSecond of a second: the model keeps one      *)
(* fractional digit of the nine that time.Time has, which is enough to     *)
(* have instants with and without a fractional part.  time.Duration is a   *)
(* signed DurationBits-bit count of ticks (an int64 count of nanoseconds   *)
(* in the program) and wraps on overflow like Go's integer arithmetic.     *)
(***************************************************************************)
TicksPerSecond == 2
DurationBits == 20
\* the clock reading when the process starts (time.Now at start-up)
StartTime == 600000

\* the value of an int64 product after wrap-around, at the model's width
WrapDuration(x) ==
  LET m == 2 ^ DurationBits
      h == 2 ^ (DurationBits - 1)
  IN  ((x + h) % m) - h

\* time.Duration(seconds) * time.Second
SecondsToDuration(seconds) == WrapDuration(seconds * TicksPerSecond)

\* t.Add(d)
TimeAdd(t, d) == t + d

DigitChar(d) == Ascii[17 + d]
DigitVal(c) == Code[c] - 48

\* n as w decimal digits, zero padded
FixedDigits(n, w) == [i \in 1..w |-> DigitChar((n \div (10 ^ (w - i))) % 10)]

RECURSIVE TrimZeros(_)
TrimZeros(ds) ==
  IF ds = << >> THEN ds
  ELSE IF ds[Len(ds)] = "0" THEN TrimZeros(SubSeq(ds, 1, Len(ds) - 1))
  ELSE ds

RECURSIVE SumSeq(_)
SumSeq(ns) == IF ns = << >> THEN 0 ELSE Head(ns) + SumSeq(Tail(ns))

DigitsValue(ds) == SumSeq([i \in DOMAIN ds |-> DigitVal(ds[i]) * (10 ^ (Len(ds) - i))])

\* t.UTC().Format(time.RFC3339Nano), from the seconds field on: the whole
\* seconds at fixed width, then the fraction with its trailing zeros removed
\* (and no decimal point when the fraction is zero), then "Z".  The fields
\* before the seconds are fixed width too and are folded into the seconds.
FormatTime(t) ==
  LET whole == FixedDigits(t \div TicksPerSecond, 6)
      frac  == TrimZeros(FixedDigits((t % TicksPerSecond) * (10 \div TicksPerSecond), 1))
  IN  whole \o (IF frac = << >> THEN << >> ELSE << "." >> \o frac) \o << "Z" >>

\* time.Parse(time.RFC3339Nano, s)
ParseTime(s) ==
  LET whole == DigitsValue(SubSeq(s, 1, 6))
      rest  == SubSeq(s, 7, Len(s) - 1)
      frac  == IF rest = << >> THEN 0 ELSE DigitsValue(SubSeq(rest, 2, 2))
  IN  whole * TicksPerSecond + frac \div (10 \div TicksPerSecond)

(***************************************************************************)
(* Configuration (config.Default) and the service's fixed limits.          *)
(***************************************************************************)
DefaultShortTTLHours == 48
DefaultSearchK == 10
MaxContextPackItems == 8
SecondsPerHour == 3600
MaxSearchK == 100
MaxPackK == 50
DefaultTokenBudget == 512
SummaryLimit == 160
NormalizeLimit == 180
LineLimit == 300
CharsPerToken == 4

(***************************************************************************)
(* Inputs.                                                                 *)
(***************************************************************************)
ScopeShort == << "s", "h", "o", "r", "t" >>
ScopeLong == << "l", "o", "n", "g" >>

\* the texts and numbers the requests of the model are made of
Sample ==
  [NsA |-> << "a", "/", "b" >>,
   NsB |-> << "c", "/", "d" >>,
   NsBad |-> << "a", " ", "b" >>,
   \* a namespace that matches the pattern only once trimmed
   NsPadded |-> << " ", "a", "/", "b" >>,
   ScopeMixed |-> << " ", "L", "o", "n", "g" >>,
   ScopeOther |-> << "t", "m", "p" >>,
   \* two contents that differ only in case and spacing, and one without "db"
   ContentA |-> << "d", "b", " ", "o", "k" >>,
   ContentB |-> << "D", "b", " ", " ", "o", "k", " " >>,
   ContentC |-> << "o", "k" >>,
   SummaryNote |-> << "n", "o", "t", "e" >>,
   QueryDb |-> << "d", "b" >>,
   \* a content that holds "db" only inside a longer word, and a query without
   \* a letter or digit that is part of it
   ContentWide |-> << "d", "b", "s", "-", "o", "k" >>,
   QueryDash |-> << "-" >>,
   \* a ttl_seconds whose Duration overflows
   TTLOverflow |-> 300000,
   \* two summaries longer than NormalizeLimit that differ only in their last
   \* character
   SummaryLongX |-> [i \in 1..181 |-> "x"],
   SummaryLongY |-> [i \in 1..181 |-> IF i = 181 THEN "y" ELSE "x"]]

\* the requests the specifications draw from, by specification and operation
Requests ==
  LET
    WriteBase ==
      [Namespace |-> Sample.NsA, Scope |-> << >>, Content |-> Sample.ContentA, Summary |-> << >>,
      Importance |-> 0, TTLSeconds |-> 0, Metadata |-> << >>]
    SearchBase ==
      [Namespace |-> Sample.NsA, Query |-> Sample.QueryDb, Scope |-> << >>, K |-> 0]
    PackBase ==
      [Namespace |-> Sample.NsA, Query |-> Sample.QueryDb, Scope |-> << >>, K |-> 0, TokenBudget |-> 0]
  IN
    \* writes that vary scope and TTL, and one rejected write of each kind
    [LifeWrites |->
      {[WriteBase EXCEPT !.TTLSeconds = t] : t \in {0, 1, Sample.TTLOverflow}}
        \cup {[WriteBase EXCEPT !.Scope = ScopeShort, !.TTLSeconds = 1]}
        \cup {[WriteBase EXCEPT !.Scope = Sample.ScopeMixed, !.TTLSeconds = t] : t \in {0, 1}}
        \cup {[WriteBase EXCEPT !.Scope = Sample.ScopeOther],
              [WriteBase EXCEPT !.Namespace = Sample.NsBad],
              [WriteBase EXCEPT !.Content = << " " >>]},
    \* writes that vary namespace, text, importance and scope
     TextWrites |->
      {WriteBase,
       [WriteBase EXCEPT !.Content = Sample.ContentB, !.Importance = 5],
       [WriteBase EXCEPT !.Summary = Sample.SummaryNote],
       [WriteBase EXCEPT !.Scope = ScopeLong],
       [WriteBase EXCEPT !.Namespace = Sample.NsB],
       [WriteBase EXCEPT !.Namespace = Sample.NsB, !.Content = Sample.ContentC]},
     LifeSearches |->
      {SearchBase,
       [SearchBase EXCEPT !.Scope = << "L", "O", "N", "G", " " >>],
       [SearchBase EXCEPT !.Scope = Sample.ScopeOther],
       [SearchBase EXCEPT !.Namespace = Sample.NsBad]},
    \* requests that validation has to judge: one good one, and one of each kind
    \* the service looks at
     ValidateWrites |->
      {WriteBase,
       [WriteBase EXCEPT !.Scope = Sample.ScopeMixed],
       [WriteBase EXCEPT !.Namespace = Sample.NsBad],
       [WriteBase EXCEPT !.Namespace = << >>],
       [WriteBase EXCEPT !.Namespace = Sample.NsPadded],
       [WriteBase EXCEPT !.Scope = Sample.ScopeOther],
       [WriteBase EXCEPT !.Content = << " " >>]},
     ValidateSearches |->
      {SearchBase,
       [SearchBase EXCEPT !.Namespace = Sample.NsBad],
       [SearchBase EXCEPT !.Namespace = << >>],
       [SearchBase EXCEPT !.Namespace = Sample.NsPadded],
       [SearchBase EXCEPT !.Scope = Sample.ScopeOther]},
     TextSearches |->
      {SearchBase,
       [SearchBase EXCEPT !.K = 1],
       [SearchBase EXCEPT !.Query = << >>],
       [SearchBase EXCEPT !.Scope = ScopeLong],
       [SearchBase EXCEPT !.Namespace = Sample.NsB]},
    \* writes into one namespace whose display texts repeat after normalisation
     PackWrites |->
      {WriteBase,
       [WriteBase EXCEPT !.Content = Sample.ContentB, !.Importance = 5],
       [WriteBase EXCEPT !.Summary = Sample.SummaryNote],
       [WriteBase EXCEPT !.Summary = Sample.SummaryLongX],
       [WriteBase EXCEPT !.Summary = Sample.SummaryLongY, !.Importance = 5]},
    \* budgets: the default, one that holds a single short line, and one that
    \* holds a long line and a short one exactly
     PackInputs |->
      {[PackBase EXCEPT !.TokenBudget = b] : b \in {0, 5, 50}},
    \* a budget of 5 tokens holds one line of the texts above and not two
     TextPacks |->
      {PackBase,
       [PackBase EXCEPT !.TokenBudget = 5],
       [PackBase EXCEPT !.Query = << >>, !.TokenBudget = 5],
       [PackBase EXCEPT !.Scope = ScopeLong]},
    \* writes and searches for a store whose index statements may fail: an
    \* entry that expires soon, one that holds the query only inside a longer
    \* word, a long one; queries with a token, without one, and empty ones
     FaultWrites |->
      {[WriteBase EXCEPT !.TTLSeconds = 1],
       [WriteBase EXCEPT !.Content = Sample.ContentWide],
       [WriteBase EXCEPT !.Scope = ScopeLong, !.Importance = 5]},
     FaultSearches |->
      {SearchBase,
       [SearchBase EXCEPT !.Query = Sample.QueryDash],
       [SearchBase EXCEPT !.Query = << " " >>]}]

(***************************************************************************)
(* State.                                                                  *)
(***************************************************************************)
VARIABLES
  now,         \* the wall clock, in ticks
  mem,         \* table memories: its rows in rowid order
  fts,         \* table memories_fts: the ids it holds
  ftsEnabled,  \* SQLiteStore.ftsEnabled
  nextId,      \* ids handed out so far (uuid.NewString never repeats)
  pend,        \* the Promote request between its UPDATE and its SELECT
  ret,         \* what the last completed operation returned (nothing while a
               \* Promote is under way)
  input,       \* the bytes of the server's input stream not yet read
  output,      \* the bytes written to, and flushed on, its output stream
  served,      \* the messages Serve has read, in order, and what became of them
  serving,     \* "run" while Serve loops; once it returned, "eof" (nil), "error"
               \* (a read error) or "cancelled" (ctx.Err()); "crashed" after a panic
  sent,        \* the messages the client put on the input stream
  log,         \* the request events handed to the sink, in order
  cancelled,   \* whether the context of runServe is done
  sweeper      \* "run" while ttl.Start loops, "stopped" once it returned

\* the state of the service and its store, and the state of the server
store == << now, mem, fts, ftsEnabled, nextId, pend, ret >>
wire == << input, output, served, serving, sent, log, cancelled, sweeper >>

vars ==
  << now, mem, fts, ftsEnabled, nextId, pend, ret, input, output, served, serving, sent,
     log, cancelled, sweeper >>

\* a nil pointer / SQL NULL is the empty tuple, a set value a 1-tuple
Nil == << >>
Some(x) == << x >>

NoRecord ==
  [ID |-> << >>, Namespace |-> << >>, Scope |-> << >>, Content |-> << >>, Summary |-> << >>,
   Importance |-> 0, Metadata |-> << >>, CreatedAt |-> 0, LastAccessedAt |-> 0,
   ExpiresAt |-> Nil, PromotedAt |-> Nil]

NoRet == [op |-> "none", in |-> << >>, at |-> 0, err |-> "", out |-> << >>, pre |-> << >>]

IdOf(n) == << "m", DigitChar(n) >>

\* the one element of a one-element set.  {F(x) : x \in {e}} names the value of
\* e once for all of F, as a local variable does.
Only(S) == CHOOSE e \in S : TRUE

SeqRange(seq) == {seq[i] : i \in DOMAIN seq}


(***************************************************************************)
(* The MCP server (internal/mcp): the bytes of its two wire encodings.     *)
(***************************************************************************)
wireModeFramed == "framed"
wireModeJSONLine == "jsonline"

\* the string literals of the server, and the texts encoding/json writes for the
\* values it marshals
Lit ==
  [\* the prefix detectWireMode looks for, in lower case
   ContentLengthPrefix |-> << "c", "o", "n", "t", "e", "n", "t", "-", "l", "e", "n", "g",
        "t", "h", ":" >>,
   \* the header name readFramedMessage looks for, folded
   ContentLengthName |-> << "c", "o", "n", "t", "e", "n", "t", "-", "l", "e", "n", "g",
        "t", "h" >>,
   \* the header writeFramedMessage writes
   ContentLengthHeader |-> << "C", "o", "n", "t", "e", "n", "t", "-", "L", "e", "n", "g",
        "t", "h", ":", " " >>,
   HeaderEnd |-> << "\r", "\n", "\r", "\n" >>,
   NullText |-> << "n", "u", "l", "l" >>,
   TrueText |-> << "t", "r", "u", "e" >>,
   FalseText |-> << "f", "a", "l", "s", "e" >>,
   KeyID |-> << "i", "d" >>,
   KeyMethod |-> << "m", "e", "t", "h", "o", "d" >>,
   KeyParams |-> << "p", "a", "r", "a", "m", "s" >>,
   KeyJSONRPC |-> << "j", "s", "o", "n", "r", "p", "c" >>,
   KeyName |-> << "n", "a", "m", "e" >>,
   KeyProtocolVersion |-> << "p", "r", "o", "t", "o", "c", "o", "l", "v", "e", "r", "s",
        "i", "o", "n" >>,
   MethodInitialized |-> << "n", "o", "t", "i", "f", "i", "c", "a", "t", "i", "o", "n",
        "s", "/", "i", "n", "i", "t", "i", "a", "l", "i", "z", "e", "d" >>,
   MethodInitialize |-> << "i", "n", "i", "t", "i", "a", "l", "i", "z", "e" >>,
   MethodPing |-> << "p", "i", "n", "g" >>,
   MethodToolsList |-> << "t", "o", "o", "l", "s", "/", "l", "i", "s", "t" >>,
   MethodToolsCall |-> << "t", "o", "o", "l", "s", "/", "c", "a", "l", "l" >>,
   DefaultProtocolVersion |-> << "2", "0", "2", "4", "-", "1", "1", "-", "0", "5" >>,
   ToolWrite |-> << "m", "e", "m", "o", "r", "y", "_", "w", "r", "i", "t", "e" >>,
   ToolSearch |-> << "m", "e", "m", "o", "r", "y", "_", "s", "e", "a", "r", "c", "h" >>,
   ToolPack |-> << "m", "e", "m", "o", "r", "y", "_", "g", "e", "t", "_", "c", "o", "n",
        "t", "e", "x", "t", "_", "p", "a", "c", "k" >>,
   ToolPromote |-> << "m", "e", "m", "o", "r", "y", "_", "p", "r", "o", "m", "o", "t",
        "e" >>,
   CodeParseError |-> << "-", "3", "2", "7", "0", "0" >>,
   CodeMethodNotFound |-> << "-", "3", "2", "6", "0", "1" >>,
   TextParseError |-> << "p", "a", "r", "s", "e", " ", "e", "r", "r", "o", "r" >>,
   TextMethodNotFound |-> << "m", "e", "t", "h", "o", "d", " ", "n", "o", "t", " ", "f",
        "o", "u", "n", "d" >>,
   \* err.Error() of a failed json.Unmarshal, shortened
   TextSyntaxError |-> << "i", "n", "v", "a", "l", "i", "d", " ", "c", "h", "a", "r",
        "a", "c", "t", "e", "r" >>,
   TextInvalidParams |-> << "i", "n", "v", "a", "l", "i", "d", " ", "t", "o", "o", "l",
        "s", "/", "c", "a", "l", "l", " ", "p", "a", "r", "a", "m", "s" >>,
   TextUnknownTool |-> << "u", "n", "k", "n", "o", "w", "n", " ", "t", "o", "o", "l" >>,
   \* the error text of a Service operation, shortened
   TextToolFailed |-> << "t", "o", "o", "l", " ", "f", "a", "i", "l", "e", "d" >>,
   JSONHead |-> << "{", "dquote", "j", "s", "o", "n", "r", "p", "c", "dquote", ":",
        "dquote", "2", ".", "0", "dquote" >>,
   JSONID |-> << ",", "dquote", "i", "d", "dquote", ":" >>,
   JSONResult |-> << ",", "dquote", "r", "e", "s", "u", "l", "t", "dquote", ":" >>,
   JSONError |-> << ",", "dquote", "e", "r", "r", "o", "r", "dquote", ":", "{", "dquote",
        "c", "o", "d", "e", "dquote", ":" >>,
   JSONMessage |-> << ",", "dquote", "m", "e", "s", "s", "a", "g", "e", "dquote", ":" >>,
   JSONData |-> << ",", "dquote", "d", "a", "t", "a", "dquote", ":" >>,
   EmptyObject |-> << "{", "}" >>,
   InitializeHead |-> << "{", "dquote", "c", "a", "p", "a", "b", "i", "l", "i", "t", "i",
        "e", "s", "dquote", ":", "{", "dquote", "t", "o", "o", "l", "s", "dquote", ":",
        "{", "dquote", "l", "i", "s", "t", "C", "h", "a", "n", "g", "e", "d", "dquote",
        ":", "f", "a", "l", "s", "e", "}", "}", ",", "dquote", "p", "r", "o", "t", "o",
        "c", "o", "l", "V", "e", "r", "s", "i", "o", "n", "dquote", ":" >>,
   InitializeTail |-> << ",", "dquote", "s", "e", "r", "v", "e", "r", "I", "n", "f", "o",
        "dquote", ":", "{", "dquote", "n", "a", "m", "e", "dquote", ":", "dquote", "m",
        "e", "m", "o", "r", "y", "-", "m", "c", "p", "dquote", ",", "dquote", "v", "e",
        "r", "s", "i", "o", "n", "dquote", ":", "dquote", "0", ".", "1", ".", "0",
        "dquote", "}", "}" >>,
   \* the result of tools/list; of each ToolDefinition only the name is kept
   ToolsListText |-> << "{", "dquote", "t", "o", "o", "l", "s", "dquote", ":", "[", "{",
        "dquote", "n", "a", "m", "e", "dquote", ":", "dquote", "m", "e", "m", "o", "r",
        "y", "_", "w", "r", "i", "t", "e", "dquote", "}", ",", "{", "dquote", "n", "a",
        "m", "e", "dquote", ":", "dquote", "m", "e", "m", "o", "r", "y", "_", "s", "e",
        "a", "r", "c", "h", "dquote", "}", ",", "{", "dquote", "n", "a", "m", "e",
        "dquote", ":", "dquote", "m", "e", "m", "o", "r", "y", "_", "g", "e", "t", "_",
        "c", "o", "n", "t", "e", "x", "t", "_", "p", "a", "c", "k", "dquote", "}", ",",
        "{", "dquote", "n", "a", "m", "e", "dquote", ":", "dquote", "m", "e", "m", "o",
        "r", "y", "_", "p", "r", "o", "m", "o", "t", "e", "dquote", "}", "]", "}" >>,
   ToolContentHead |-> << "{", "dquote", "c", "o", "n", "t", "e", "n", "t", "dquote",
        ":", "[", "{", "dquote", "t", "e", "x", "t", "dquote", ":" >>,
   ToolErrorTail |-> << ",", "dquote", "t", "y", "p", "e", "dquote", ":", "dquote", "t",
        "e", "x", "t", "dquote", "}", "]", ",", "dquote", "i", "s", "E", "r", "r", "o",
        "r", "dquote", ":", "t", "r", "u", "e", "}" >>,
   \* the tail of a successful tool result; the structured content is left empty
   ToolSuccessTail |-> << ",", "dquote", "t", "y", "p", "e", "dquote", ":", "dquote",
        "t", "e", "x", "t", "dquote", "}", "]", ",", "dquote", "i", "s", "E", "r", "r",
        "o", "r", "dquote", ":", "f", "a", "l", "s", "e", ",", "dquote", "s", "t", "r",
        "u", "c", "t", "u", "r", "e", "d", "C", "o", "n", "t", "e", "n", "t", "dquote",
        ":", "{", "}", "}" >>,
   KeyArguments |-> << "a", "r", "g", "u", "m", "e", "n", "t", "s" >>,
   KeyNamespace |-> << "n", "a", "m", "e", "s", "p", "a", "c", "e" >>,
   KeyScope |-> << "s", "c", "o", "p", "e" >>,
   KeyContent |-> << "c", "o", "n", "t", "e", "n", "t" >>,
   KeySummary |-> << "s", "u", "m", "m", "a", "r", "y" >>,
   KeyImportance |-> << "i", "m", "p", "o", "r", "t", "a", "n", "c", "e" >>,
   KeyTTLSeconds |-> << "t", "t", "l", "_", "s", "e", "c", "o", "n", "d", "s" >>,
   KeyMetadata |-> << "m", "e", "t", "a", "d", "a", "t", "a" >>,
   KeyQuery |-> << "q", "u", "e", "r", "y" >>,
   KeyK |-> << "k" >>,
   KeyTokenBudget |-> << "t", "o", "k", "e", "n", "_", "b", "u", "d", "g", "e", "t" >>,
   KeyMemoryID |-> << "m", "e", "m", "o", "r", "y", "_", "i", "d" >>,
   KeyTargetScope |-> << "t", "a", "r", "g", "e", "t", "_", "s", "c", "o", "p", "e" >>,
   \* the key scanBaseMemory keeps the bm25 value under
   KeyBm25 |-> << "_", "b", "m", "2", "5" >>,
   \* "invalid <tool> arguments: ...", shortened
   TextInvalidArguments |-> << "i", "n", "v", "a", "l", "i", "d", " ", "a", "r", "g",
        "u", "m", "e", "n", "t", "s" >>,
   \* the method recorded for a message that did not parse
   MethodParseError |-> << "p", "a", "r", "s", "e", "_", "e", "r", "r", "o", "r" >>,
   \* the method recorded for a message without one
   MethodUnknown |-> << "u", "n", "k", "n", "o", "w", "n" >>,
   TextToolCallFailed |-> << "t", "o", "o", "l", " ", "c", "a", "l", "l", " ", "f",
        "a", "i", "l", "e", "d" >>]

HasPrefix(s, p) == Len(s) >= Len(p) /\ SubSeq(s, 1, Len(p)) = p

\* the first n bytes of s (all of it when it is shorter), and what follows them
Take(s, n) == SubSeq(s, 1, IF n < Len(s) THEN n ELSE Len(s))
Drop(s, n) == SubSeq(s, n + 1, Len(s))

\* the index of the first c in s, 0 when there is none
FirstIndex(s, c) ==
  Only({IF \A i \in DOMAIN x : x[i] # c THEN 0
        ELSE CHOOSE i \in DOMAIN x : x[i] = c /\ \A j \in 1..(i - 1) : x[j] # c :
        x \in {s}})

\* strings.ToLower on bytes that may be control characters
LowerBytes(s) == [i \in DOMAIN s |-> IF s[i] \in AsciiChars THEN ToLowerRune(s[i]) ELSE s[i]]

\* strings.TrimRight(line, "\r\n")
TrimRightCRLF(line) ==
  IF \A i \in DOMAIN line : line[i] \in {"\r", "\n"} THEN << >>
  ELSE SubSeq(line, 1, CHOOSE i \in DOMAIN line :
                           /\ line[i] \notin {"\r", "\n"}
                           /\ \A j \in (i + 1)..Len(line) : line[j] \in {"\r", "\n"})

\* strconv.Atoi accepts an optional sign and decimal digits
AtoiOk(s) ==
  LET ds == IF s # << >> /\ s[1] \in {"+", "-"} THEN Tail(s) ELSE s
  IN  ds # << >> /\ \A i \in DOMAIN ds : ds[i] \in AsciiChars /\ IsDigit(ds[i])

Atoi(s) ==
  IF s[1] = "-" THEN 0 - DigitsValue(Tail(s))
  ELSE IF s[1] = "+" THEN DigitsValue(Tail(s))
  ELSE DigitsValue(s)

\* strconv.Itoa for n >= 0
RECURSIVE Itoa(_)
Itoa(n) == IF n < 10 THEN << DigitChar(n) >> ELSE Itoa(n \div 10) \o << DigitChar(n % 10) >>

\* the bytes bufio.Reader.Peek(16) looks at
PeekLen == 16

\* detectWireMode without the lower-casing of the bytes it looks at
detectWireModeExactCase(r) ==
  IF \A i \in DOMAIN r : IsSpace(r[i])
  THEN [err |-> "EOF", mode |-> wireModeFramed, rest |-> << >>]
  ELSE LET first == CHOOSE i \in DOMAIN r :
                      ~IsSpace(r[i]) /\ \A j \in 1..(i - 1) : IsSpace(r[j])
           rest == Drop(r, first - 1)
       IN  [err |-> "",
            mode |-> IF HasPrefix(Take(rest, PeekLen), Lit.ContentLengthPrefix)
                     THEN wireModeFramed ELSE wireModeJSONLine,
            rest |-> rest]

\* detectWireMode: skips white space, then looks at the bytes that follow
detectWireMode(r) ==
  IF \A i \in DOMAIN r : IsSpace(r[i])
  THEN [err |-> "EOF", mode |-> wireModeFramed, rest |-> << >>]
  ELSE LET first == CHOOSE i \in DOMAIN r :
                      ~IsSpace(r[i]) /\ \A j \in 1..(i - 1) : IsSpace(r[j])
           rest == Drop(r, first - 1)
           peekLower == LowerBytes(Take(rest, PeekLen))
       IN  [err |-> "",
            mode |-> IF HasPrefix(peekLower, Lit.ContentLengthPrefix)
                     THEN wireModeFramed ELSE wireModeJSONLine,
            rest |-> rest]

\* readJSONLineMessage: the next line that is not blank, trimmed
RECURSIVE readJSONLineMessage(_)
readJSONLineMessage(r) ==
  LET nl == FirstIndex(r, "\n")
      line == TrimSpace(IF nl = 0 THEN r ELSE Take(r, nl))
      rest == IF nl = 0 THEN << >> ELSE Drop(r, nl)
  IN  IF line # << >>
      THEN [err |-> "", mode |-> wireModeJSONLine, payload |-> line, rest |-> rest]
      ELSE IF nl = 0
      THEN [err |-> "EOF", mode |-> wireModeJSONLine, payload |-> << >>, rest |-> rest]
      ELSE readJSONLineMessage(rest)

\* the header loop of readFramedMessage: the length the headers declare, and
\* the bytes after the empty line
RECURSIVE readHeaders(_, _)
readHeaders(r, contentLength) ==
  LET nl == FirstIndex(r, "\n")
      line == TrimRightCRLF(Take(r, nl))
      rest == Drop(r, nl)
      colon == FirstIndex(line, ":")
      value == TrimSpace(Drop(line, colon))
  IN  IF nl = 0 THEN [err |-> "EOF", n |-> 0, rest |-> << >>]
      ELSE IF line = << >> THEN [err |-> "", n |-> contentLength, rest |-> rest]
      ELSE IF colon = 0 THEN readHeaders(rest, contentLength)
      ELSE IF LowerBytes(TrimSpace(Take(line, colon - 1))) # Lit.ContentLengthName
      THEN readHeaders(rest, contentLength)
      ELSE IF ~AtoiOk(value) THEN [err |-> "invalid Content-Length", n |-> 0, rest |-> rest]
      ELSE readHeaders(rest, Atoi(value))

\* readFramedMessage: the headers, then exactly the declared number of bytes
readFramedMessage(r) ==
  LET h == readHeaders(r, 0)
  IN  IF h.err # ""
      THEN [err |-> h.err, mode |-> wireModeFramed, payload |-> << >>, rest |-> h.rest]
      ELSE IF h.n <= 0
      THEN [err |-> "missing or invalid Content-Length", mode |-> wireModeFramed,
            payload |-> << >>, rest |-> h.rest]
      ELSE IF Len(h.rest) < h.n
      THEN [err |-> IF h.rest = << >> THEN "EOF" ELSE "unexpected EOF",
            mode |-> wireModeFramed, payload |-> << >>, rest |-> << >>]
      ELSE [err |-> "", mode |-> wireModeFramed, payload |-> Take(h.rest, h.n),
            rest |-> Drop(h.rest, h.n)]

\* readMessage: detects the mode of the message at hand, then reads it that way
readMessage(r) ==
  LET d == detectWireMode(r)
  IN  IF d.err # ""
      THEN [err |-> d.err, mode |-> wireModeFramed, payload |-> << >>, rest |-> d.rest]
      ELSE IF d.mode = wireModeJSONLine THEN readJSONLineMessage(d.rest)
      ELSE readFramedMessage(d.rest)

(***************************************************************************)
(* encoding/json on the messages of the model: objects, strings without    *)
(* escapes, commas or braces, unsigned numbers and the three literals.     *)
(***************************************************************************)
\* how many objects are open after the first i bytes of s
Depth(s, i) ==
  Cardinality({j \in 1..i : s[j] = "{"}) - Cardinality({j \in 1..i : s[j] = "}"})

IsJSONString(v) ==
  /\ Len(v) >= 2
  /\ v[1] = "dquote" /\ v[Len(v)] = "dquote"
  /\ \A i \in 2..(Len(v) - 1) : v[i] \notin {"dquote", "bslash", "\n", "\r", "\t"}

IsJSONNumber(v) == v # << >> /\ \A i \in DOMAIN v : v[i] \in AsciiChars /\ IsDigit(v[i])

\* the members of an object's text, each with its raw key and raw value (the
\* value empty when the member has no colon): the text between the braces is
\* cut at the commas that are outside every nested object
Members(v) ==
  LET Nth(S, k) == CHOOSE x \in S : Cardinality({y \in S : y < x}) = k - 1
      PiecesAt(s, cuts) ==
        [k \in 1..(Cardinality(cuts) + 1) |->
           SubSeq(s, (IF k = 1 THEN 0 ELSE Nth(cuts, k - 1)) + 1,
                     (IF k = Cardinality(cuts) + 1 THEN Len(s) + 1 ELSE Nth(cuts, k)) - 1)]
      SplitTop(s) ==
        Only({PiecesAt(s, cuts) :
              cuts \in {{i \in DOMAIN s : s[i] = "," /\ Depth(s, i) = 0}}})
      MemberOf(part) ==
        Only({IF colon = 0 THEN [key |-> TrimSpace(part), colon |-> FALSE, value |-> << >>]
              ELSE [key |-> TrimSpace(Take(part, colon - 1)), colon |-> TRUE,
                    value |-> TrimSpace(Drop(part, colon))] :
              colon \in {FirstIndex(part, ":")}})
  IN  Only({IF inner = << >> THEN << >>
            ELSE Only({[k \in DOMAIN parts |-> MemberOf(parts[k])] :
                         parts \in {SplitTop(inner)}}) :
            inner \in {TrimSpace(SubSeq(v, 2, Len(v) - 1))}})

RECURSIVE IsJSONValue(_)
IsJSONObject(v) ==
  /\ Len(v) >= 2
  /\ v[1] = "{" /\ v[Len(v)] = "}"
  /\ \A i \in 1..(Len(v) - 1) : Depth(v, i) >= 1
  /\ \A m \in SeqRange(Members(v)) :
        m.colon /\ IsJSONString(m.key) /\ IsJSONValue(m.value)

IsJSONValue(v) ==
  \/ v \in {Lit.NullText, Lit.TrueText, Lit.FalseText}
  \/ IsJSONString(v)
  \/ IsJSONNumber(v)
  \/ IsJSONObject(v)

Quote(s) == << "dquote" >> \o s \o << "dquote" >>

\* the raw value of the last of the members ms whose key matches name (keys
\* match struct fields whatever their case), Nil when there is none
MemberValue(ms, name) ==
  Only({IF hits = {} THEN Nil
        ELSE Some(ms[CHOOSE k \in hits : \A l \in hits : l <= k].value) :
        hits \in {{k \in DOMAIN ms : LowerBytes(ms[k].key) = Quote(name)}}})

\* a string field among the members ms: absent and null leave the field empty;
\* ok is false when the member is neither a string nor null
StringField(ms, name) ==
  Only({IF m = Nil \/ m = Some(Lit.NullText) THEN [ok |-> TRUE, value |-> << >>]
        ELSE IF IsJSONString(m[1]) THEN [ok |-> TRUE, value |-> SubSeq(m[1], 2, Len(m[1]) - 1)]
        ELSE [ok |-> FALSE, value |-> << >>] :
        m \in {MemberValue(ms, name)}})

\* a json.RawMessage field among the members ms: the raw text of the member,
\* null included
RawField(ms, name) ==
  Only({IF m = Nil THEN << >> ELSE m[1] : m \in {MemberValue(ms, name)}})

NoRequest == [ID |-> << >>, Method |-> << >>, Params |-> << >>]

\* json.Unmarshal(payload, &req)
Unmarshal(payload) ==
  Only({IF v = Lit.NullText THEN [ok |-> TRUE, req |-> NoRequest]
        ELSE IF ~IsJSONObject(v) THEN [ok |-> FALSE, req |-> NoRequest]
        ELSE Only({Only({IF ~method.ok \/ ~version.ok
                         THEN [ok |-> FALSE, req |-> NoRequest]
                         ELSE [ok |-> TRUE,
                               req |-> [ID |-> RawField(ms, Lit.KeyID),
                                        Method |-> method.value,
                                        Params |-> RawField(ms, Lit.KeyParams)]] :
                         method \in {StringField(ms, Lit.KeyMethod)},
                         version \in {StringField(ms, Lit.KeyJSONRPC)}}) :
                   ms \in {Members(v)}}) :
        v \in {TrimSpace(payload)}})

(***************************************************************************)
(* Service helpers (internal/memory).                                      *)
(***************************************************************************)
NamespaceChar(c) == IsLetter(c) \/ IsDigit(c) \/ c \in {"_", ".", "-"}

\* regexp ^[a-zA-Z0-9_.-]+(/[a-zA-Z0-9_.-]+){1,7}$
NamespaceMatch(s) ==
  LET segs == Split(s, "/")
  IN  /\ Len(segs) >= 2
      /\ Len(segs) <= 8
      /\ \A i \in DOMAIN segs :
            segs[i] # << >> /\ \A j \in DOMAIN segs[i] : NamespaceChar(segs[i][j])

\* Service.validateNamespace: "" when the namespace is accepted
validateNamespace(namespace) ==
  LET ns == TrimSpace(namespace)
  IN  IF ns = << >> THEN "namespace is required"
      ELSE IF ~NamespaceMatch(ns) THEN "namespace does not match required pattern"
      ELSE ""

truncate(s, limit) ==
  IF Len(s) <= limit THEN s
  ELSE IF limit < 3 THEN SubSeq(s, 1, limit)
  ELSE SubSeq(s, 1, limit - 3) \o << ".", ".", "." >>

autoSummary(content) ==
  LET c == TrimSpace(content)
  IN  IF c = << >> THEN << >> ELSE truncate(c, SummaryLimit)

(***************************************************************************)
(* The store (SQLiteStore).                                                *)
(***************************************************************************)
\* the column values InsertMemory binds for a record.  A metadata map is the
\* text of its JSON object (json.Marshal of the map the request gave), the
\* empty text when the map is nil
RowOf(rec) ==
  [id |-> rec.ID, namespace |-> rec.Namespace, scope |-> rec.Scope,
   content |-> rec.Content, summary |-> rec.Summary, importance |-> rec.Importance,
   metadata_json |-> IF rec.Metadata = << >> THEN Lit.EmptyObject ELSE rec.Metadata,
   created_at |-> FormatTime(rec.CreatedAt),
   last_accessed_at |-> FormatTime(rec.LastAccessedAt),
   expires_at |-> IF rec.ExpiresAt = Nil THEN Nil ELSE Some(FormatTime(rec.ExpiresAt[1])),
   promoted_at |-> IF rec.PromotedAt = Nil THEN Nil ELSE Some(FormatTime(rec.PromotedAt[1]))]

\* scanBaseMemory: a row read back into a record
scanMemoryRow(row) ==
  [ID |-> row.id, Namespace |-> row.namespace, Scope |-> row.scope,
   Content |-> row.content, Summary |-> row.summary, Importance |-> row.importance,
   Metadata |-> row.metadata_json,
   CreatedAt |-> ParseTime(row.created_at),
   LastAccessedAt |-> ParseTime(row.last_accessed_at),
   ExpiresAt |-> IF row.expires_at = Nil THEN Nil ELSE Some(ParseTime(row.expires_at[1])),
   PromotedAt |-> IF row.promoted_at = Nil THEN Nil ELSE Some(ParseTime(row.promoted_at[1]))]

RowIds(table) == {table[i].id : i \in DOMAIN table}

\* stable sort (sort.SliceStable, and SQLite's ORDER BY over rows in rowid
\* order): before[i][j] says seq[i] sorts strictly before seq[j]
StableSort(seq, before) ==
  LET n == Len(seq)
  IN  Only({[k \in 1..n |-> seq[CHOOSE i \in 1..n : pos[i] = k]] :
              pos \in {[i \in 1..n |->
                          1 + Cardinality({j \in 1..n :
                                before[j][i] \/ (~before[i][j] /\ j < i)})]}})

Limit(seq, n) == IF Len(seq) > n THEN SubSeq(seq, 1, n) ELSE seq

\* the alphanumeric runs of a text, lower-cased (without duplicates removed):
\* every other character separates
TokenRuns(s) ==
  Fields([i \in DOMAIN s |->
            IF IsLetter(s[i]) \/ IsDigit(s[i]) THEN ToLowerRune(s[i]) ELSE " "])

RECURSIVE Dedupe(_, _)
Dedupe(seq, seen) ==
  IF seq = << >> THEN << >>
  ELSE IF Head(seq) \in seen THEN Dedupe(Tail(seq), seen)
  ELSE << Head(seq) >> \o Dedupe(Tail(seq), seen \cup {Head(seq)})

tokenizeQueryTerms(query) == Dedupe(TokenRuns(TrimSpace(query)), {})

\* scores are fixed-point numbers: ScoreScale stands for 1.0
ScoreScale == 1000

Count(seq, x) == Cardinality({i \in DOMAIN seq : seq[i] = x})

\* the tokens the index holds for a row (content and summary; id is UNINDEXED)
IndexedTokens(f) == f.tokens

\* the row INSERT INTO memories_fts(id, content, summary) adds: the index keeps
\* the columns as their tokens
IndexRow(rec) ==
  [id |-> rec.ID, tokens |-> TokenRuns(rec.Content) \o TokenRuns(rec.Summary)]

\* memories_fts MATCH '"t1" AND "t2" ...'
FtsMatch(f, terms) ==
  \A i \in DOMAIN terms : \E j \in DOMAIN f.tokens : f.tokens[j] = terms[i]

\* bm25(memories_fts) of a matching index row, times ScoreScale.  SQLite's FTS5
\* computes -SUM over the query phrases of idf * tf with
\*   idf = ln((N - n + 0.5) / (n + 0.5)), replaced by its smallest positive
\*         value when that is <= 0,
\*   tf  = freq * 2.2 / (freq + 1.2 * (0.25 + 0.75 * len / avglen)),
\* N the rows of the whole index, n those holding the phrase, len the row's
\* token count and avglen the index's average.  ln(x) is taken as x - 1.
Bm25(f, terms, index) ==
  LET N == Len(index)
      T == SumSeq([i \in DOMAIN index |-> Len(IndexedTokens(index[i]))])
      D == Len(IndexedTokens(f))
      hits == [k \in DOMAIN terms |->
                 Cardinality({i \in DOMAIN index :
                                \E j \in DOMAIN index[i].tokens : index[i].tokens[j] = terms[k]})]
      x == [k \in DOMAIN terms |-> ((2 * (N - hits[k]) + 1) * ScoreScale) \div (2 * hits[k] + 1)]
      idf == [k \in DOMAIN terms |-> IF x[k] <= ScoreScale THEN 1 ELSE x[k] - ScoreScale]
      freq == [k \in DOMAIN terms |-> Count(IndexedTokens(f), terms[k])]
      tf == [k \in DOMAIN terms |->
               (22 * freq[k] * T * ScoreScale) \div (10 * freq[k] * T + 3 * T + 9 * D * N)]
  IN  0 - SumSeq([k \in DOMAIN terms |-> (idf[k] * tf[k]) \div ScoreScale])

Abs(x) == IF x < 0 THEN 0 - x ELSE x

\* expires_at IS NULL OR expires_at > ?
NotExpiredAt(row, nowText) == row.expires_at = Nil \/ StrLess(nowText, row.expires_at[1])

\* what a row's metadata holds under "_bm25" (map keys match exactly): the raw
\* text of the value, Nil when the key is absent
StoredBm(row) ==
  Only({Only({IF hits = {} THEN Nil
              ELSE Some(ms[CHOOSE k \in hits : \A l \in hits : l <= k].value) :
              hits \in {{k \in DOMAIN ms : ms[k].key = Quote(Lit.KeyBm25)}}}) :
        ms \in {Members(row.metadata_json)}})

\* scanCandidateRow panics: scanBaseMemory puts bm under "_bm25" and then
\* unmarshals metadata_json over that map, so a stored "_bm25" replaces bm, and
\* the assertion .(float64) fails on anything but a number
scanCandidatePanics(row) ==
  Only({v # Nil /\ ~IsJSONNumber(v[1]) : v \in {StoredBm(row)}})

\* scanCandidateRow on the rows that matched, hit being their ids and bm25
\* values in result order: bm is what the map holds under "_bm25" after the
\* unmarshal, and the key is deleted from the record's metadata
CandidatesOf(m, hit) ==
  LET Without(text) ==
        Only({<< "{" >> \o Join([k \in DOMAIN kept |->
                                 kept[k].key \o << ":" >> \o kept[k].value],
                              << "," >>) \o << "}" >> :
              kept \in {SelectSeq(Members(text),
                                  LAMBDA mb : mb.key # Quote(Lit.KeyBm25))}})
      Scan(row, bm0) ==
        Only({[Record |-> [scanMemoryRow(row) EXCEPT
                             !.Metadata = IF v = Nil THEN @ ELSE Without(@)],
               LexicalScore |->
                 (ScoreScale * ScoreScale)
                   \div (ScoreScale + Abs(IF v # Nil /\ IsJSONNumber(v[1])
                                          THEN Atoi(v[1]) * ScoreScale ELSE bm0))] :
              v \in {StoredBm(row)}})
  IN  [i \in DOMAIN hit |->
         Scan(m[CHOOSE k \in DOMAIN m : m[k].id = hit[i].id], hit[i].bm)]

\* ORDER BY bm ASC
OrderByBm(scored) ==
  StableSort(scored,
    [i \in DOMAIN scored |-> [j \in DOMAIN scored |-> scored[i].bm < scored[j].bm]])

\* SQLiteStore.searchFTS over the tables m (memories) and index (memories_fts)
searchFTS(m, index, namespace, terms, scope, limit, t) ==
  LET nowText == FormatTime(t)
      Joined(f) == \E i \in DOMAIN m :
                      /\ m[i].id = f.id
                      /\ m[i].namespace = namespace
                      /\ NotExpiredAt(m[i], nowText)
                      /\ (scope # << >> => m[i].scope = scope)
      matched == SelectSeq(index, LAMBDA f : FtsMatch(f, terms) /\ Joined(f))
  IN  Only({CandidatesOf(m, Limit(ranked, limit)) :
              ranked \in {OrderByBm(scored) :
                scored \in {[i \in DOMAIN found |->
                               [id |-> found[i].id, bm |-> Bm25(found[i], terms, index)]] :
                  found \in {matched}}}})

\* ORDER BY created_at DESC
OrderByCreatedDesc(found) ==
  StableSort(found,
    [i \in DOMAIN found |-> [j \in DOMAIN found |->
       StrLess(found[j].created_at, found[i].created_at)]])

\* the candidates of the rows a substring scan found
ScanCandidatesOf(hit, query) ==
  [i \in DOMAIN hit |->
     [Record |-> scanMemoryRow(hit[i]),
      LexicalScore |-> IF query = << >> THEN ScoreScale \div 4 ELSE (2 * ScoreScale) \div 5]]

\* searchLIKE without "namespace = ?" in its WHERE clause
searchLIKEAnyNamespace(m, namespace, query, terms, scope, limit, t) ==
  LET nowText == FormatTime(t)
      Holds(row, needle) == LikeContains(row.content, needle) \/ LikeContains(row.summary, needle)
      Where(row) ==
        /\ NotExpiredAt(row, nowText)
        /\ (scope # << >> => row.scope = scope)
        /\ IF terms # << >> THEN \A i \in DOMAIN terms : Holds(row, terms[i])
           ELSE (query # << >> => Holds(row, query))
  IN  Only({ScanCandidatesOf(Limit(ordered, limit), query) :
              ordered \in {OrderByCreatedDesc(found) : found \in {SelectSeq(m, Where)}}})

\* SQLiteStore.searchLIKE
searchLIKE(m, namespace, query, terms, scope, limit, t) ==
  LET nowText == FormatTime(t)
      Holds(row, needle) == LikeContains(row.content, needle) \/ LikeContains(row.summary, needle)
      Where(row) ==
        /\ row.namespace = namespace
        /\ NotExpiredAt(row, nowText)
        /\ (scope # << >> => row.scope = scope)
        /\ IF terms # << >> THEN \A i \in DOMAIN terms : Holds(row, terms[i])
           ELSE (query # << >> => Holds(row, query))
  IN  Only({ScanCandidatesOf(Limit(ordered, limit), query) :
              ordered \in {OrderByCreatedDesc(found) : found \in {SelectSeq(m, Where)}}})

\* SQLiteStore.SearchCandidates
SearchCandidates(m, index, enabled, namespace, query0, scope, limit0, t) ==
  LET limit == IF limit0 <= 0 THEN 10 ELSE limit0
      query == TrimSpace(query0)
  IN  Only({IF terms # << >> /\ enabled
            THEN Only({IF viaIndex # << >> THEN viaIndex
                       ELSE searchLIKE(m, namespace, query, terms, scope, limit, t) :
                         viaIndex \in {searchFTS(m, index, namespace, terms, scope, limit, t)}})
            ELSE searchLIKE(m, namespace, query, terms, scope, limit, t) :
              terms \in {tokenizeQueryTerms(query)}})

(***************************************************************************)
(* The service (internal/memory).                                          *)
(***************************************************************************)
\* recencyScore: exp(-days/14), and 1.0 when no time has passed.  exp(-x) is
\* taken as 1 - x, one unit of the score scale per tick.
recencyScore(t, created) ==
  IF t - created <= 0 THEN ScoreScale
  ELSE IF t - created >= ScoreScale THEN 0
  ELSE ScoreScale - (t - created)

\* 0.60*lexical + 0.25*recency + 0.15*(importance/5), times 100
FinalScore(lexical, recency, importance) ==
  60 * lexical + 25 * recency + 3 * importance * ScoreScale

\* the normalised scope of a request: strings.TrimSpace(strings.ToLower(scope))
NormalScope(scope) == TrimSpace(ToLower(scope))

\* the K a search uses
EffectiveK(k) ==
  LET k1 == IF k <= 0 THEN DefaultSearchK ELSE k
  IN  IF k1 > MaxSearchK THEN MaxSearchK ELSE k1

\* the results of Service.Search before they are sorted
Scored(cands, t) ==
  [i \in DOMAIN cands |->
     [Record |-> [cands[i].Record EXCEPT !.Metadata = << >>],
      Score |-> FinalScore(cands[i].LexicalScore,
                           recencyScore(t, cands[i].Record.CreatedAt),
                           cands[i].Record.Importance),
      LexicalScore |-> cands[i].LexicalScore,
      RecencyScore |-> recencyScore(t, cands[i].Record.CreatedAt),
      ImportanceScore |-> (cands[i].Record.Importance * ScoreScale) \div 5]]

\* a sort by descending score that turns round the entries of equal score
OrderByScoreDescTiesReversed(scored) ==
  StableSort(scored,
    [i \in DOMAIN scored |-> [j \in DOMAIN scored |->
       \/ scored[i].Score > scored[j].Score
       \/ (scored[i].Score = scored[j].Score /\ i > j)]])

\* sort.SliceStable by descending score
OrderByScoreDesc(scored) ==
  StableSort(scored,
    [i \in DOMAIN scored |-> [j \in DOMAIN scored |-> scored[i].Score > scored[j].Score]])

\* the ranking step of Service.Search: score, stable sort by score, cut to K
Rank(cands, k, t) ==
  Only({Limit(ranked, k) :
          ranked \in {OrderByScoreDesc(scored) : scored \in {Scored(cands, t)}}})

\* Service.Search over the tables m and index at time t: the error ("" for
\* none), the candidates the store returned and the ranked results
ServiceSearch(m, index, enabled, in, t) ==
  LET nsErr == validateNamespace(in.Namespace)
      scope == NormalScope(in.Scope)
      k     == EffectiveK(in.K)
  IN  IF nsErr # "" THEN [err |-> nsErr, cands |-> << >>, results |-> << >>]
      ELSE IF scope # << >> /\ scope # ScopeShort /\ scope # ScopeLong
      THEN [err |-> "invalid scope", cands |-> << >>, results |-> << >>]
      ELSE Only({[err |-> "", cands |-> cands, results |-> Rank(cands, k, t)] :
                   cands \in {SearchCandidates(m, index, enabled, in.Namespace, in.Query,
                                               scope, k * 3, t)}})

\* Service.Search ends in a panic: the request is valid, the text index is
\* queried, and scanCandidateRow panics on one of the rows the query returns
SearchPanics(m, index, enabled, in, t) ==
  /\ validateNamespace(in.Namespace) = ""
  /\ NormalScope(in.Scope) \in {<< >>, ScopeShort, ScopeLong}
  /\ enabled
  /\ Only({/\ terms # << >>
           /\ \E c \in SeqRange(searchFTS(m, index, in.Namespace, terms,
                                           NormalScope(in.Scope), EffectiveK(in.K) * 3, t)) :
                 \E i \in DOMAIN m : m[i].id = c.Record.ID /\ scanCandidatePanics(m[i]) :
           terms \in {tokenizeQueryTerms(TrimSpace(in.Query))}})

\* normalize without the case folding
normalizeKeepCase(s) == truncate(Join(Fields(TrimSpace(s)), << " " >>), NormalizeLimit)

\* normalize: lower-case, trim, collapse whitespace runs, cut to 180
normalize(s) == truncate(Join(Fields(ToLower(TrimSpace(s))), << " " >>), NormalizeLimit)

\* estimateTokens with the quotient rounded down instead of up
estimateTokensFloor(s) ==
  LET t == Len(s) \div CharsPerToken
  IN  IF t < 1 THEN 1 ELSE t

\* estimateTokens: ceil(runes / 4), at least 1
estimateTokens(s) ==
  LET t == (Len(s) + CharsPerToken - 1) \div CharsPerToken
  IN  IF t < 1 THEN 1 ELSE t

\* the text ContextPack shows for a result
DisplayText(rec) ==
  IF TrimSpace(rec.Summary) # << >> THEN TrimSpace(rec.Summary) ELSE TrimSpace(rec.Content)

\* fmt.Sprintf("- [%s] %s", id, truncate(text, 300))
PackLine(rec) ==
  << "-", " ", "[" >> \o rec.ID \o << "]", " " >> \o truncate(DisplayText(rec), LineLimit)

\* a round of the loop that skips a line over the budget and goes on to the
\* next result
PackStepSkipping(r, budget, st) ==
  LET text == DisplayText(r.Record)
      norm == normalize(text)
      line == PackLine(r.Record)
      cost == estimateTokens(line)
  IN  IF text = << >> THEN st
      ELSE IF norm \in st.seen THEN st
      ELSE IF st.tokens + cost > budget
      THEN [st EXCEPT !.seen = @ \cup {norm}]
      ELSE [seen |-> st.seen \cup {norm}, lines |-> Append(st.lines, line),
            ids |-> Append(st.ids, r.Record.ID), tokens |-> st.tokens + cost,
            done |-> FALSE]

\* one round of the loop of Service.ContextPack, on result r with the loop's
\* variables st; st.done says the loop has left through its break
PackStep(r, budget, st) ==
  LET text == DisplayText(r.Record)
      norm == normalize(text)
      line == PackLine(r.Record)
      cost == estimateTokens(line)
  IN  IF text = << >> THEN st
      ELSE IF norm \in st.seen THEN st
      ELSE IF st.tokens + cost > budget
      THEN [st EXCEPT !.seen = @ \cup {norm}, !.done = TRUE]
      ELSE [seen |-> st.seen \cup {norm}, lines |-> Append(st.lines, line),
            ids |-> Append(st.ids, r.Record.ID), tokens |-> st.tokens + cost,
            done |-> FALSE]

\* the loop of Service.ContextPack from result i on
RECURSIVE PackLoop(_, _, _, _)
PackLoop(results, i, budget, st) ==
  IF i > Len(results) \/ st.done THEN st
  ELSE Only({PackLoop(results, i + 1, budget, next) :
               next \in {PackStep(results[i], budget, st)}})

EffectiveBudget(b) == IF b <= 0 THEN DefaultTokenBudget ELSE b

EffectivePackK(k) ==
  LET k1 == IF k <= 0 THEN MaxContextPackItems ELSE k
  IN  IF k1 > MaxPackK THEN MaxPackK ELSE k1

\* Service.ContextPack after its call of Search returned found
PackOf(found, budget) ==
  IF found.err # "" THEN [err |-> found.err, results |-> << >>, pack |-> << >>]
  ELSE Only({[err |-> "", results |-> found.results,
              pack |-> [Text |-> Join(st.lines, << "\n" >>), EstimatedTokens |-> st.tokens,
                        MemoryIDs |-> st.ids, Lines |-> st.lines]] :
               st \in {PackLoop(found.results, 1, budget,
                                [seen |-> {}, lines |-> << >>, ids |-> << >>, tokens |-> 0,
                                 done |-> FALSE])}})

\* the SearchInput Service.ContextPack hands to Service.Search
PackSearch(in) ==
  [Namespace |-> in.Namespace, Query |-> in.Query, Scope |-> in.Scope,
   K |-> EffectivePackK(in.K)]

\* Service.ContextPack
ServiceContextPack(m, index, enabled, in, t) ==
  Only({PackOf(found, EffectiveBudget(in.TokenBudget)) :
          found \in {ServiceSearch(m, index, enabled, PackSearch(in), t)}})

(***************************************************************************)
(* Operations.                                                             *)
(***************************************************************************)
InitStore ==
  /\ now = StartTime
  /\ mem = << >>
  /\ fts = << >>
  /\ ftsEnabled \in BOOLEAN
  /\ nextId = 0
  /\ pend = Nil
  /\ ret = NoRet

\* the server with nothing on its input
Init ==
  /\ InitStore
  /\ sent = << >>
  /\ input = << >>
  /\ output = << >>
  /\ served = << >>
  /\ serving = "run"
  /\ log = << >>
  /\ cancelled = FALSE
  /\ sweeper = "run"

Failed(op, in, msg, pre) ==
  [op |-> op, in |-> in, at |-> now, err |-> msg, out |-> << >>, pre |-> pre]

\* the scope Write stores for a request
WriteScope(in) ==
  IF NormalScope(in.Scope) = << >> THEN ScopeShort ELSE NormalScope(in.Scope)

\* WriteExpiry with the expiry set whenever a TTL is given, whatever the scope
WriteExpiryAnyScope(in, t) ==
  IF WriteScope(in) = ScopeShort \/ in.TTLSeconds > 0
  THEN LET ttl == IF in.TTLSeconds <= 0 THEN DefaultShortTTLHours * SecondsPerHour
                  ELSE in.TTLSeconds
       IN  Some(TimeAdd(t, SecondsToDuration(ttl)))
  ELSE Nil

\* the expiry Write computes at time t: a pointer, nil for a long entry
WriteExpiry(in, t) ==
  IF WriteScope(in) = ScopeShort
  THEN LET ttl == IF in.TTLSeconds <= 0 THEN DefaultShortTTLHours * SecondsPerHour
                  ELSE in.TTLSeconds
       IN  Some(TimeAdd(t, SecondsToDuration(ttl)))
  ELSE Nil

\* the record Write builds
WriteRecord(in, id, t) ==
  [ID |-> id, Namespace |-> in.Namespace, Scope |-> WriteScope(in),
   Content |-> in.Content,
   Summary |-> IF TrimSpace(in.Summary) = << >> THEN autoSummary(in.Content)
               ELSE TrimSpace(in.Summary),
   Importance |-> IF in.Importance < 1 \/ in.Importance > 5 THEN 3 ELSE in.Importance,
   Metadata |-> in.Metadata,
   CreatedAt |-> t, LastAccessedAt |-> t, ExpiresAt |-> WriteExpiry(in, t),
   PromotedAt |-> Nil]

\* a Write that gives up when the insert into memories_fts fails: the error is
\* returned and the row in memories rolled back
WriteWithIndexOrNot(in, indexed) ==
  /\ pend = Nil
  /\ UNCHANGED wire
  /\ IF validateNamespace(in.Namespace) # ""
     THEN /\ ret' = Failed("write", in, validateNamespace(in.Namespace), << >>)
          /\ UNCHANGED << now, mem, fts, ftsEnabled, nextId, pend >>
     ELSE IF WriteScope(in) # ScopeShort /\ WriteScope(in) # ScopeLong
     THEN /\ ret' = Failed("write", in, "invalid scope", << >>)
          /\ UNCHANGED << now, mem, fts, ftsEnabled, nextId, pend >>
     ELSE IF TrimSpace(in.Content) = << >>
     THEN /\ ret' = Failed("write", in, "content must not be empty", << >>)
          /\ UNCHANGED << now, mem, fts, ftsEnabled, nextId, pend >>
     ELSE IF ftsEnabled /\ ~indexed
     THEN /\ ret' = Failed("write", in, "fts insert failed", << >>)
          /\ UNCHANGED << now, mem, fts, ftsEnabled, nextId, pend >>
     ELSE LET rec == WriteRecord(in, IdOf(nextId + 1), now)
          IN  /\ nextId' = nextId + 1
              /\ mem' = Append(mem, RowOf(rec))
              /\ fts' = IF ftsEnabled
                        THEN Append(fts, IndexRow(rec))
                        ELSE fts
              /\ ret' = [op |-> "write", in |-> in, at |-> now, err |-> "",
                         out |-> rec, pre |-> << >>]
              /\ UNCHANGED << now, ftsEnabled, pend >>

\* Service.Write with SQLiteStore.InsertMemory; indexed says whether the
\* insert into memories_fts went through (its failure is only logged)
Write(in, indexed) ==
  /\ pend = Nil
  /\ UNCHANGED wire
  /\ IF validateNamespace(in.Namespace) # ""
     THEN /\ ret' = Failed("write", in, validateNamespace(in.Namespace), << >>)
          /\ UNCHANGED << now, mem, fts, ftsEnabled, nextId, pend >>
     ELSE IF WriteScope(in) # ScopeShort /\ WriteScope(in) # ScopeLong
     THEN /\ ret' = Failed("write", in, "invalid scope", << >>)
          /\ UNCHANGED << now, mem, fts, ftsEnabled, nextId, pend >>
     ELSE IF TrimSpace(in.Content) = << >>
     THEN /\ ret' = Failed("write", in, "content must not be empty", << >>)
          /\ UNCHANGED << now, mem, fts, ftsEnabled, nextId, pend >>
     ELSE LET rec == WriteRecord(in, IdOf(nextId + 1), now)
          IN  /\ nextId' = nextId + 1
              /\ mem' = Append(mem, RowOf(rec))
              /\ fts' = IF ftsEnabled /\ indexed
                        THEN Append(fts, IndexRow(rec))
                        ELSE fts
              /\ ret' = [op |-> "write", in |-> in, at |-> now, err |-> "",
                         out |-> rec, pre |-> << >>]
              /\ UNCHANGED << now, ftsEnabled, pend >>

\* a Search that also refreshes last_accessed_at of the rows
SearchTouching(in, indexFails) ==
  /\ pend = Nil
  /\ UNCHANGED wire
  /\ LET r == ServiceSearch(mem, fts, ftsEnabled /\ ~indexFails, in, now)
     IN  ret' = [op |-> "search", in |-> in, at |-> now, err |-> r.err,
                 out |-> [cands |-> r.cands, results |-> r.results], pre |-> << >>]
  /\ mem' = [i \in DOMAIN mem |-> [mem[i] EXCEPT !.last_accessed_at = FormatTime(now + 1)]]
  /\ UNCHANGED << now, fts, ftsEnabled, nextId, pend >>

\* a panic nothing recovers from: the process is gone
Crash ==
  /\ serving' = "crashed"
  /\ UNCHANGED << input, output, served, sent, log, cancelled, sweeper >>
  /\ UNCHANGED store

\* Service.Search; indexFails says whether the query on memories_fts ends in
\* an error, which SearchCandidates only logs before it runs searchLIKE, as
\* it does without the index
Search(in, indexFails) ==
  /\ pend = Nil
  /\ IF SearchPanics(mem, fts, ftsEnabled /\ ~indexFails, in, now) THEN Crash
     ELSE /\ UNCHANGED wire
          /\ LET r == ServiceSearch(mem, fts, ftsEnabled /\ ~indexFails, in, now)
             IN  ret' = [op |-> "search", in |-> in, at |-> now, err |-> r.err,
                         out |-> [cands |-> r.cands, results |-> r.results],
                         pre |-> << >>]
          /\ UNCHANGED << now, mem, fts, ftsEnabled, nextId, pend >>

\* Service.ContextPack
ContextPack(in) ==
  /\ pend = Nil
  /\ IF SearchPanics(mem, fts, ftsEnabled, PackSearch(in), now) THEN Crash
     ELSE /\ UNCHANGED wire
          /\ LET r == ServiceContextPack(mem, fts, ftsEnabled, in, now)
             IN  ret' = [op |-> "pack", in |-> in, at |-> now, err |-> r.err,
                         out |-> [results |-> r.results, pack |-> r.pack],
                         pre |-> << >>]
          /\ UNCHANGED << now, mem, fts, ftsEnabled, nextId, pend >>

\* the UPDATE of Promote without "expires_at = NULL"
PromoteRowsKeepExpiry(m, id, t) ==
  [i \in DOMAIN m |->
     IF m[i].id = id
     THEN [m[i] EXCEPT !.scope = ScopeLong,
                       !.promoted_at = Some(FormatTime(t)),
                       !.last_accessed_at = FormatTime(t)]
     ELSE m[i]]

\* the UPDATE of Promote without "scope = 'long'"
PromoteRowsKeepScope(m, id, t) ==
  [i \in DOMAIN m |->
     IF m[i].id = id
     THEN [m[i] EXCEPT !.expires_at = Nil,
                       !.promoted_at = Some(FormatTime(t)),
                       !.last_accessed_at = FormatTime(t)]
     ELSE m[i]]

\* the UPDATE of Promote with the two time stamps only: the row stays short
\* and keeps its expiry until a later statement
PromoteRowsStampOnly(m, id, t) ==
  [i \in DOMAIN m |->
     IF m[i].id = id
     THEN [m[i] EXCEPT !.promoted_at = Some(FormatTime(t)),
                       !.last_accessed_at = FormatTime(t)]
     ELSE m[i]]

\* SQLiteStore.Promote: the UPDATE, on every row whose id matches
PromoteRows(m, id, t) ==
  [i \in DOMAIN m |->
     IF m[i].id = id
     THEN [m[i] EXCEPT !.scope = ScopeLong, !.expires_at = Nil,
                       !.promoted_at = Some(FormatTime(t)),
                       !.last_accessed_at = FormatTime(t)]
     ELSE m[i]]

\* the row with an id, as a 0- or 1-element sequence
RowById(m, id) == SelectSeq(m, LAMBDA r : r.id = id)

\* a RowsAffected that never reports 0
RowsAffectedSome(m, id) == Len(RowById(m, id)) + 1

\* res.RowsAffected() of Promote's UPDATE
RowsAffected(m, id) == Len(RowById(m, id))

\* Service.Promote up to and including the store's UPDATE
PromoteBegin(in) ==
  /\ pend = Nil
  /\ UNCHANGED wire
  /\ IF TrimSpace(in.MemoryID) = << >>
     THEN /\ ret' = Failed("promote", in, "memory_id is required", RowById(mem, in.MemoryID))
          /\ UNCHANGED << now, mem, fts, ftsEnabled, nextId, pend >>
     ELSE IF in.TargetScope # << >> /\ in.TargetScope # ScopeLong
     THEN /\ ret' = Failed("promote", in, "only target_scope=long is supported", RowById(mem, in.MemoryID))
          /\ UNCHANGED << now, mem, fts, ftsEnabled, nextId, pend >>
     ELSE IF RowsAffected(mem, in.MemoryID) = 0
     THEN /\ ret' = Failed("promote", in, "memory not found", << >>)
          /\ UNCHANGED << now, mem, fts, ftsEnabled, nextId, pend >>
     ELSE /\ mem' = PromoteRows(mem, in.MemoryID, now)
          /\ pend' = Some([in |-> in, at |-> now, pre |-> RowById(mem, in.MemoryID)])
          /\ ret' = NoRet
          /\ UNCHANGED << now, fts, ftsEnabled, nextId >>

\* Service.Promote from the store's GetMemory on
PromoteFinish ==
  /\ pend # Nil
  /\ UNCHANGED wire
  /\ LET p == pend[1]
         found == RowById(mem, p.in.MemoryID)
     IN  ret' = [op |-> "promote", in |-> p.in, at |-> p.at,
                 err |-> IF found = << >> THEN "sql: no rows in result set" ELSE "",
                 out |-> IF found = << >> THEN NoRecord ELSE scanMemoryRow(found[1]),
                 pre |-> p.pre]
  /\ pend' = Nil
  /\ UNCHANGED << now, mem, fts, ftsEnabled, nextId >>

\* DELETE FROM memories WHERE scope = 'short' AND expires_at IS NOT NULL
\*   AND expires_at <= ?
ExpireDue(row, nowText) ==
  row.scope = ScopeShort /\ row.expires_at # Nil /\ StrLeq(row.expires_at[1], nowText)

\* an ExpireShort that leaves memories_fts alone
ExpireShortKeepIndex(reconciled) ==
  LET nowText == FormatTime(now)
      kept == SelectSeq(mem, LAMBDA r : ~ExpireDue(r, nowText))
      n == Len(mem) - Len(kept)
  IN  /\ sweeper = "run"
      /\ mem' = kept
      /\ fts' = fts
      /\ ret' = [op |-> "expire", in |-> << >>, at |-> now, err |-> "", out |-> n,
                 pre |-> << >>]
      /\ UNCHANGED << now, ftsEnabled, nextId, pend >>
      /\ UNCHANGED wire

\* the ttl worker's tick: Service.ExpireShort with SQLiteStore.ExpireShort;
\* reconciled says whether the delete of orphaned index rows went through
ExpireShort(reconciled) ==
  LET nowText == FormatTime(now)
      kept == SelectSeq(mem, LAMBDA r : ~ExpireDue(r, nowText))
      n == Len(mem) - Len(kept)
  IN  /\ sweeper = "run"
      /\ mem' = kept
      /\ fts' = IF ftsEnabled /\ n > 0 /\ reconciled
                THEN SelectSeq(fts, LAMBDA f : f.id \in RowIds(kept))
                ELSE fts
      /\ ret' = [op |-> "expire", in |-> << >>, at |-> now, err |-> "", out |-> n,
                 pre |-> << >>]
      /\ UNCHANGED << now, ftsEnabled, nextId, pend >>
      /\ UNCHANGED wire

\* a worker that returns from its loop when a sweep fails
ExpireShortFailsAndStops ==
  /\ sweeper = "run"
  /\ ret' = [op |-> "expire", in |-> << >>, at |-> now, err |-> "ttl cleanup failed",
             out |-> 0, pre |-> << >>]
  /\ sweeper' = "stopped"
  /\ UNCHANGED << now, mem, fts, ftsEnabled, nextId, pend >>
  /\ UNCHANGED << input, output, served, serving, sent, log, cancelled >>

\* the ttl worker's tick when the DELETE on memories fails: ExpireShort
\* returns the error, ttl.Start logs it and goes on with its loop
ExpireShortFails ==
  /\ sweeper = "run"
  /\ ret' = [op |-> "expire", in |-> << >>, at |-> now, err |-> "ttl cleanup failed",
             out |-> 0, pre |-> << >>]
  /\ UNCHANGED << now, mem, fts, ftsEnabled, nextId, pend >>
  /\ UNCHANGED wire

\* time passes
Tick ==
  /\ now < StartTime + MaxTime
  /\ now' = now + 1
  /\ UNCHANGED << mem, fts, ftsEnabled, nextId, pend, ret >>
  /\ UNCHANGED wire

PromoteInputs ==
  {[MemoryID |-> IdOf(i), TargetScope |-> << >>] : i \in 1..MaxEntries}
    \cup {[MemoryID |-> IdOf(1), TargetScope |-> ScopeLong],
          [MemoryID |-> IdOf(1), TargetScope |-> ScopeShort],
          [MemoryID |-> << " " >>, TargetScope |-> << >>]}

(***************************************************************************)
(* Dispatch.                                                               *)
(***************************************************************************)
NoResponse == [ID |-> Nil, Result |-> Nil, Error |-> Nil]

\* decodeID: the id as json.Marshal writes it back; nil for no id and for null
decodeID(raw) == IF raw = << >> \/ raw = Lit.NullText THEN Nil ELSE Some(raw)

errorResponse(id, code, msg, data) ==
  [ID |-> id, Result |-> Nil, Error |-> Some([Code |-> code, Message |-> msg, Data |-> data])]

\* a response that carries a result map: its "isError" and the text of its
\* first content item when it has them, and its JSON text
ResultResponse(id, isError, content, body) ==
  [ID |-> id, Result |-> Some([isError |-> isError, content |-> content, body |-> body]),
   Error |-> Nil]

\* the result of initialize: the protocol version the params give, the default
\* when they give none (the error of their json.Unmarshal is dropped)
InitializeResult(params) ==
  Only({Lit.InitializeHead
          \o Quote(IF TrimSpace(pv) = << >> THEN Lit.DefaultProtocolVersion ELSE pv)
          \o Lit.InitializeTail :
        pv \in {Only({IF ~IsJSONObject(v) THEN << >>
                      ELSE Only({IF field.ok THEN field.value ELSE << >> :
                                 field \in {StringField(Members(v),
                                                        Lit.KeyProtocolVersion)}}) :
                      v \in {TrimSpace(params)}})}})

\* toolDefinitions: the fields each tool's input schema lists as required
RequiredFields(tool) ==
  IF tool = Lit.ToolWrite THEN {Lit.KeyNamespace, Lit.KeyContent}
  ELSE IF tool = Lit.ToolSearch THEN {Lit.KeyNamespace, Lit.KeyQuery}
  ELSE IF tool = Lit.ToolPack THEN {Lit.KeyNamespace, Lit.KeyQuery, Lit.KeyTokenBudget}
  ELSE IF tool = Lit.ToolPromote THEN {Lit.KeyMemoryID}
  ELSE {}

\* the decoding steps of handleToolCall: json.Unmarshal of the params into name
\* and arguments, the switch on the name, json.Unmarshal of the arguments into
\* the tool's input.  A field the arguments leave out keeps its zero value.
DecodeToolCall(params) ==
  LET Bad(text) == [err |-> text, tool |-> << >>, in |-> << >>]
      IntField(ms, key) ==
        Only({IF m = Nil \/ m = Some(Lit.NullText) THEN [ok |-> TRUE, value |-> 0]
              ELSE IF IsJSONNumber(m[1]) THEN [ok |-> TRUE, value |-> Atoi(m[1])]
              ELSE [ok |-> FALSE, value |-> 0] :
              m \in {MemberValue(ms, key)}})
      MapField(ms, key) ==
        Only({IF m = Nil \/ m = Some(Lit.NullText) THEN [ok |-> TRUE, value |-> << >>]
              ELSE IF IsJSONObject(m[1]) THEN [ok |-> TRUE, value |-> m[1]]
              ELSE [ok |-> FALSE, value |-> << >>] :
              m \in {MemberValue(ms, key)}})
      InputFields(tool, ms) ==
        IF tool = Lit.ToolWrite
        THEN [Namespace |-> StringField(ms, Lit.KeyNamespace),
              Scope |-> StringField(ms, Lit.KeyScope),
              Content |-> StringField(ms, Lit.KeyContent),
              Summary |-> StringField(ms, Lit.KeySummary),
              Importance |-> IntField(ms, Lit.KeyImportance),
              TTLSeconds |-> IntField(ms, Lit.KeyTTLSeconds),
              Metadata |-> MapField(ms, Lit.KeyMetadata)]
        ELSE IF tool = Lit.ToolSearch
        THEN [Namespace |-> StringField(ms, Lit.KeyNamespace),
              Query |-> StringField(ms, Lit.KeyQuery),
              Scope |-> StringField(ms, Lit.KeyScope),
              K |-> IntField(ms, Lit.KeyK)]
        ELSE IF tool = Lit.ToolPack
        THEN [Namespace |-> StringField(ms, Lit.KeyNamespace),
              Query |-> StringField(ms, Lit.KeyQuery),
              TokenBudget |-> IntField(ms, Lit.KeyTokenBudget),
              Scope |-> StringField(ms, Lit.KeyScope),
              K |-> IntField(ms, Lit.KeyK)]
        ELSE [MemoryID |-> StringField(ms, Lit.KeyMemoryID),
              TargetScope |-> StringField(ms, Lit.KeyTargetScope)]
      Input(tool, raw) ==
        IF raw = << >> \/ (raw # Lit.NullText /\ ~IsJSONObject(raw))
        THEN Bad(Lit.TextInvalidArguments)
        ELSE Only({IF \E k \in DOMAIN fs : ~fs[k].ok THEN Bad(Lit.TextInvalidArguments)
                   ELSE [err |-> << >>, tool |-> tool,
                         in |-> [k \in DOMAIN fs |-> fs[k].value]] :
                   fs \in {InputFields(tool, IF raw = Lit.NullText THEN << >>
                                         ELSE Members(raw))}})
  IN  Only({IF v = Lit.NullText THEN Bad(Lit.TextUnknownTool)
            ELSE IF ~IsJSONObject(v) THEN Bad(Lit.TextInvalidParams)
            ELSE Only({Only({IF ~name.ok THEN Bad(Lit.TextInvalidParams)
                             ELSE IF name.value \notin {Lit.ToolWrite, Lit.ToolSearch,
                                                        Lit.ToolPack, Lit.ToolPromote}
                             THEN Bad(Lit.TextUnknownTool)
                             ELSE Input(name.value, TrimSpace(RawField(ms, Lit.KeyArguments))) :
                             name \in {StringField(ms, Lit.KeyName)}}) :
                       ms \in {Members(v)}}) :
            v \in {TrimSpace(params)}})

\* no Service operation invoked: the store as it is
NoCall ==
  [invoked |-> Nil, failed |-> FALSE, panics |-> FALSE,
   mem |-> mem, fts |-> fts, nextId |-> nextId]

\* the call of the Service operation behind a tool, on the store as it is:
\* whether it returns an error, whether it panics, and the store it leaves.
\* storeFails says whether the database refuses the operation's statement.
ServiceCall(tool, in, storeFails) ==
  LET Call(failed, panics, m, index, n) ==
        [invoked |-> Some([tool |-> tool, in |-> in, failed |-> failed]), failed |-> failed,
         panics |-> panics, mem |-> m, fts |-> index, nextId |-> n]
      Kept(failed, panics) == Call(failed, panics, mem, fts, nextId)
  IN  IF tool = Lit.ToolWrite
      THEN IF \/ validateNamespace(in.Namespace) # ""
              \/ WriteScope(in) \notin {ScopeShort, ScopeLong}
              \/ TrimSpace(in.Content) = << >>
              \/ storeFails
           THEN Kept(TRUE, FALSE)
           ELSE Only({Call(FALSE, FALSE, Append(mem, RowOf(rec)),
                           IF ftsEnabled THEN Append(fts, IndexRow(rec)) ELSE fts,
                           nextId + 1) :
                      rec \in {WriteRecord(in, IdOf(nextId + 1), now)}})
      ELSE IF tool = Lit.ToolSearch
      THEN IF storeFails THEN Kept(TRUE, FALSE)
           ELSE IF SearchPanics(mem, fts, ftsEnabled, in, now) THEN Kept(FALSE, TRUE)
           ELSE Kept(ServiceSearch(mem, fts, ftsEnabled, in, now).err # "", FALSE)
      ELSE IF tool = Lit.ToolPack
      THEN IF storeFails THEN Kept(TRUE, FALSE)
           ELSE IF SearchPanics(mem, fts, ftsEnabled, PackSearch(in), now)
           THEN Kept(FALSE, TRUE)
           ELSE Kept(ServiceContextPack(mem, fts, ftsEnabled, in, now).err # "", FALSE)
      ELSE IF \/ TrimSpace(in.MemoryID) = << >>
              \/ (in.TargetScope # << >> /\ in.TargetScope # ScopeLong)
              \/ storeFails
              \/ RowsAffected(mem, in.MemoryID) = 0
           THEN Kept(TRUE, FALSE)
           ELSE Call(FALSE, FALSE, PromoteRows(mem, in.MemoryID, now), fts, nextId)

\* a failed tool call answered with an error object in the envelope
ToolErrorInEnvelope(id, text) == errorResponse(id, Lit.CodeParseError, text, Nil)

\* the result map of a failed tool call
ToolError(id, text) ==
  ResultResponse(id, Some(TRUE), Some(text),
                 Lit.ToolContentHead \o Quote(text) \o Lit.ToolErrorTail)

\* handleToolCall with the response handle makes of what it returns
handleToolCall(id, params, storeFails) ==
  Only({IF d.err # << >> THEN [resp |-> ToolError(id, d.err), call |-> NoCall]
        ELSE Only({[resp |-> IF c.failed THEN ToolError(id, Lit.TextToolFailed)
                             ELSE ResultResponse(id, Some(FALSE), Some(Lit.EmptyObject),
                                                 Lit.ToolContentHead
                                                   \o Quote(Lit.EmptyObject)
                                                   \o Lit.ToolSuccessTail),
                    call |-> c] :
                   c \in {ServiceCall(d.tool, d.in, storeFails)}}) :
        d \in {DecodeToolCall(params)}})

\* Server.handle with a tools/call answered whether or not it has an id
handleAnsweringCalls(req, storeFails) ==
  LET hasID == req.ID # << >>
      id == decodeID(req.ID)
      Reply(respond, resp) == [respond |-> respond, resp |-> resp, call |-> NoCall]
  IN  IF req.Method = Lit.MethodInitialized THEN Reply(FALSE, NoResponse)
      ELSE IF req.Method = Lit.MethodInitialize
      THEN Reply(hasID, ResultResponse(id, Nil, Nil, InitializeResult(req.Params)))
      ELSE IF req.Method = Lit.MethodPing
      THEN Reply(hasID, ResultResponse(id, Nil, Nil, Lit.EmptyObject))
      ELSE IF req.Method = Lit.MethodToolsList
      THEN Reply(hasID, ResultResponse(id, Nil, Nil, Lit.ToolsListText))
      ELSE IF req.Method = Lit.MethodToolsCall
      THEN Only({[respond |-> TRUE, resp |-> t.resp, call |-> t.call] :
                 t \in {handleToolCall(id, req.Params, storeFails)}})
      ELSE IF ~hasID THEN Reply(FALSE, NoResponse)
      ELSE Reply(TRUE, errorResponse(id, Lit.CodeMethodNotFound, Lit.TextMethodNotFound,
                                     Some(Quote(req.Method))))

\* Server.handle
handle(req, storeFails) ==
  LET hasID == req.ID # << >>
      id == decodeID(req.ID)
      Reply(respond, resp) == [respond |-> respond, resp |-> resp, call |-> NoCall]
  IN  IF req.Method = Lit.MethodInitialized THEN Reply(FALSE, NoResponse)
      ELSE IF req.Method = Lit.MethodInitialize
      THEN Reply(hasID, ResultResponse(id, Nil, Nil, InitializeResult(req.Params)))
      ELSE IF req.Method = Lit.MethodPing
      THEN Reply(hasID, ResultResponse(id, Nil, Nil, Lit.EmptyObject))
      ELSE IF req.Method = Lit.MethodToolsList
      THEN Reply(hasID, ResultResponse(id, Nil, Nil, Lit.ToolsListText))
      ELSE IF req.Method = Lit.MethodToolsCall
      THEN Only({[respond |-> hasID, resp |-> t.resp, call |-> t.call] :
                 t \in {handleToolCall(id, req.Params, storeFails)}})
      ELSE IF ~hasID THEN Reply(FALSE, NoResponse)
      ELSE Reply(TRUE, errorResponse(id, Lit.CodeMethodNotFound, Lit.TextMethodNotFound,
                                     Some(Quote(req.Method))))

\* toolNameFromParams
toolNameFromParams(method, params) ==
  IF method # Lit.MethodToolsCall \/ params = << >> THEN << >>
  ELSE Only({IF v = Lit.NullText \/ ~IsJSONObject(v) THEN << >>
             ELSE TrimSpace(StringField(Members(v), Lit.KeyName).value) :
             v \in {TrimSpace(params)}})

\* responseSuccessful looking at the protocol error only
responseSuccessfulEnvelope(resp) == resp.Error = Nil

\* responseSuccessful
responseSuccessful(resp) ==
  IF resp.Error # Nil THEN FALSE
  ELSE IF resp.Result = Nil THEN TRUE
  ELSE IF resp.Result[1].isError = Nil THEN TRUE
  ELSE ~resp.Result[1].isError[1]

\* responseErrorText
responseErrorText(resp) ==
  IF resp.Error # Nil THEN TrimSpace(resp.Error[1].Message)
  ELSE IF resp.Result = Nil THEN << >>
  ELSE IF resp.Result[1].isError = Nil THEN << >>
  ELSE IF ~resp.Result[1].isError[1] THEN << >>
  ELSE IF resp.Result[1].content = Nil THEN Lit.TextToolCallFailed
  ELSE IF TrimSpace(resp.Result[1].content[1]) = << >> THEN Lit.TextToolCallFailed
  ELSE TrimSpace(resp.Result[1].content[1])

\* the record recordRequest hands to the sink
recordRequest(req, resp) ==
  [Method |-> IF TrimSpace(req.Method) = << >> THEN Lit.MethodUnknown
              ELSE TrimSpace(req.Method),
   ToolName |-> toolNameFromParams(req.Method, req.Params),
   Success |-> responseSuccessful(resp),
   ErrorText |-> responseErrorText(resp)]

\* json.Marshal(response): jsonrpc, then id, result and error when they are set
Marshal(resp) ==
  Lit.JSONHead
    \o (IF resp.ID = Nil THEN << >> ELSE Lit.JSONID \o resp.ID[1])
    \o (IF resp.Result = Nil THEN << >> ELSE Lit.JSONResult \o resp.Result[1].body)
    \o (IF resp.Error = Nil THEN << >>
        ELSE Lit.JSONError \o resp.Error[1].Code
               \o Lit.JSONMessage \o Quote(resp.Error[1].Message)
               \o (IF resp.Error[1].Data = Nil THEN << >> ELSE Lit.JSONData \o resp.Error[1].Data[1])
               \o << "}" >>)
    \o << "}" >>

writeFramedMessage(msg) ==
  Only({Lit.ContentLengthHeader \o Itoa(Len(payload)) \o Lit.HeaderEnd \o payload :
        payload \in {Marshal(msg)}})

writeMessage(msg, mode) ==
  IF mode = wireModeJSONLine THEN Marshal(msg) \o << "\n" >>
  ELSE writeFramedMessage(msg)

(***************************************************************************)
(* Server.Serve: one pass of its loop is a read and then a dispatch.       *)
(***************************************************************************)
\* a loop that reads on without waiting for the dispatch of what it read
AtLoopStartAlways == TRUE

\* the loop is about to read: nothing read yet, or the last message dealt with
AtLoopStart == IF served = << >> THEN TRUE ELSE served[Len(served)].done

\* the signal arrives: the context of runServe is done
Cancel ==
  /\ ~cancelled
  /\ serving = "run"
  /\ cancelled' = TRUE
  /\ UNCHANGED << input, output, served, serving, sent, log, sweeper >>
  /\ UNCHANGED store

\* ttl.Start takes the ctx.Done() case of its select and returns
SweeperStop ==
  /\ cancelled
  /\ sweeper = "run"
  /\ sweeper' = "stopped"
  /\ UNCHANGED << input, output, served, serving, sent, log, cancelled >>
  /\ UNCHANGED store

\* Serve takes the ctx.Done() case at the top of its loop and returns ctx.Err()
ServeCancelled ==
  /\ serving = "run"
  /\ AtLoopStart
  /\ cancelled
  /\ serving' = "cancelled"
  /\ UNCHANGED << input, output, served, sent, log, cancelled, sweeper >>
  /\ UNCHANGED store

\* readMessage at the top of the loop, the context not done
ServeRead ==
  /\ serving = "run"
  /\ AtLoopStart
  /\ ~cancelled
  /\ LET m == Only({readMessage(r) : r \in {input}})
     IN  /\ input' = m.rest
         /\ IF m.err = "EOF" THEN serving' = "eof" /\ UNCHANGED served
            ELSE IF m.err # "" THEN serving' = "error" /\ UNCHANGED served
            ELSE /\ served' = Append(served, [mode |-> m.mode, payload |-> m.payload,
                                              done |-> FALSE, parsed |-> FALSE,
                                              req |-> NoRequest, resp |-> NoResponse,
                                              wrote |-> Nil, called |-> Nil])
                 /\ UNCHANGED serving
  /\ UNCHANGED << output, sent, log, cancelled, sweeper >>
  /\ UNCHANGED store

\* the rest of the loop body: json.Unmarshal, then the parse error recorded and
\* written framed, or handle, recordRequest and the write of the reply in the
\* mode of the request; a panic of the Service operation ends the process
ServeHandle(storeFails) ==
  /\ serving = "run"
  /\ ~AtLoopStart
  /\ \E cur \in {served[Len(served)]} :
        \E u \in {Unmarshal(cur.payload)} :
           \E h \in {IF ~u.ok
                     THEN [respond |-> TRUE,
                           resp |-> errorResponse(Nil, Lit.CodeParseError,
                                                  Lit.TextParseError,
                                                  Some(Quote(Lit.TextSyntaxError))),
                           call |-> NoCall]
                     ELSE handle(u.req, storeFails)} :
              IF h.call.panics THEN Crash
              ELSE \E bytes \in {IF ~u.ok THEN writeFramedMessage(h.resp)
                                 ELSE IF h.respond THEN writeMessage(h.resp, cur.mode)
                                 ELSE << >>} :
                      /\ log' = Append(log, recordRequest(
                                              IF u.ok THEN u.req
                                              ELSE [NoRequest EXCEPT
                                                      !.Method = Lit.MethodParseError],
                                              h.resp))
                      /\ output' = output \o bytes
                      /\ served' = [served EXCEPT ![Len(served)] =
                                      [cur EXCEPT !.done = TRUE, !.parsed = u.ok,
                                                  !.req = u.req, !.resp = h.resp,
                                                  !.wrote = IF bytes = << >> THEN Nil
                                                            ELSE Some(bytes),
                                                  !.called = h.call.invoked]]
                      /\ mem' = h.call.mem
                      /\ fts' = h.call.fts
                      /\ nextId' = h.call.nextId
                      /\ UNCHANGED << input, serving, sent, cancelled, sweeper >>
                      /\ UNCHANGED << now, ftsEnabled, pend, ret >>

\* what Serve returned: nil (the empty text) at the end of input, ctx.Err()
\* when the context was done, the error of readMessage otherwise
ServeResult ==
  IF serving = "cancelled" THEN "context canceled"
  ELSE IF serving = "error" THEN "read error"
  ELSE ""

\* a runServe that returns whatever Serve returned
runServeStrict(err) == err

\* what runServe returns for the result of Serve
runServe(err) == IF err # "" /\ err # "context canceled" THEN err ELSE ""

(***************************************************************************)
(* The messages of the model, each with the encoding its sender used and   *)
(* the payload it carries.                                                 *)
(***************************************************************************)
Msg ==
  [\* a request on a line
   LinePing |-> [bytes |-> << "{", "dquote", "i", "d", "dquote", ":", "1", ",", "dquote",
        "m", "e", "t", "h", "o", "d", "dquote", ":", "dquote", "p", "i", "n", "g",
        "dquote", "}", "\n" >>, mode |-> wireModeJSONLine, payload |-> << "{", "dquote",
        "i", "d", "dquote", ":", "1", ",", "dquote", "m", "e", "t", "h", "o", "d",
        "dquote", ":", "dquote", "p", "i", "n", "g", "dquote", "}" >>],
   \* a notification on an indented line that ends in CR LF, after a blank line
   LineNotify |-> [bytes |-> << "\n", " ", " ", "{", "dquote", "m", "e", "t", "h", "o",
        "d", "dquote", ":", "dquote", "p", "i", "n", "g", "dquote", "}", "\r", "\n" >>,
        mode |-> wireModeJSONLine, payload |-> << "{", "dquote", "m", "e", "t", "h", "o",
        "d", "dquote", ":", "dquote", "p", "i", "n", "g", "dquote", "}" >>],
   \* a framed request
   FramedPing |-> [bytes |-> << "C", "o", "n", "t", "e", "n", "t", "-", "L", "e", "n",
        "g", "t", "h", ":", " ", "2", "4", "\r", "\n", "\r", "\n", "{", "dquote", "i",
        "d", "dquote", ":", "1", ",", "dquote", "m", "e", "t", "h", "o", "d", "dquote",
        ":", "dquote", "p", "i", "n", "g", "dquote", "}" >>, mode |-> wireModeFramed,
        payload |-> << "{", "dquote", "i", "d", "dquote", ":", "1", ",", "dquote", "m",
        "e", "t", "h", "o", "d", "dquote", ":", "dquote", "p", "i", "n", "g", "dquote",
        "}" >>],
   \* a framed request after white space, its header in lower case and followed by
   \* another header, its payload (an unknown method) holding a newline
   FramedUnknown |-> [bytes |-> << " ", "\n", "c", "o", "n", "t", "e", "n", "t", "-",
        "l", "e", "n", "g", "t", "h", ":", "2", "4", "\r", "\n", "X", "-", "A", ":", " ",
        "b", "\r", "\n", "\r", "\n", "{", "dquote", "i", "d", "dquote", ":", "2", ",",
        "\n", "dquote", "m", "e", "t", "h", "o", "d", "dquote", ":", "dquote", "n", "o",
        "p", "dquote", "}" >>, mode |-> wireModeFramed, payload |-> << "{", "dquote",
        "i", "d", "dquote", ":", "2", ",", "\n", "dquote", "m", "e", "t", "h", "o", "d",
        "dquote", ":", "dquote", "n", "o", "p", "dquote", "}" >>],
   \* a line that is not JSON
   LineMalformed |-> [bytes |-> << "{", "o", "o", "p", "s", "\n" >>, mode |->
        wireModeJSONLine, payload |-> << "{", "o", "o", "p", "s" >>],
   \* a frame whose payload is not JSON
   FramedMalformed |-> [bytes |-> << "C", "o", "n", "t", "e", "n", "t", "-", "L", "e",
        "n", "g", "t", "h", ":", " ", "2", "\r", "\n", "\r", "\n", "{", "x" >>, mode |->
        wireModeFramed, payload |-> << "{", "x" >>],
   \* a frame that declares no payload
   FramedNoLength |-> [bytes |-> << "C", "o", "n", "t", "e", "n", "t", "-", "L", "e",
        "n", "g", "t", "h", ":", " ", "0", "\r", "\n", "\r", "\n" >>, mode |->
        wireModeFramed, payload |-> <<  >>],
   \* a call of a tool that does not exist
   LineUnknownTool |-> [bytes |-> << "{", "dquote", "i", "d", "dquote", ":", "3", ",",
        "dquote", "m", "e", "t", "h", "o", "d", "dquote", ":", "dquote", "t", "o", "o",
        "l", "s", "/", "c", "a", "l", "l", "dquote", ",", "dquote", "p", "a", "r", "a",
        "m", "s", "dquote", ":", "{", "dquote", "n", "a", "m", "e", "dquote", ":",
        "dquote", "n", "o", "p", "e", "dquote", "}", "}", "\n" >>, mode |->
        wireModeJSONLine, payload |-> << "{", "dquote", "i", "d", "dquote", ":", "3",
        ",", "dquote", "m", "e", "t", "h", "o", "d", "dquote", ":", "dquote", "t", "o",
        "o", "l", "s", "/", "c", "a", "l", "l", "dquote", ",", "dquote", "p", "a", "r",
        "a", "m", "s", "dquote", ":", "{", "dquote", "n", "a", "m", "e", "dquote", ":",
        "dquote", "n", "o", "p", "e", "dquote", "}", "}" >>],
   \* a call of a tool
   LineTool |-> [bytes |-> << "{", "dquote", "i", "d", "dquote", ":", "3", ",", "dquote",
        "m", "e", "t", "h", "o", "d", "dquote", ":", "dquote", "t", "o", "o", "l", "s",
        "/", "c", "a", "l", "l", "dquote", ",", "dquote", "p", "a", "r", "a", "m", "s",
        "dquote", ":", "{", "dquote", "n", "a", "m", "e", "dquote", ":", "dquote", "m",
        "e", "m", "o", "r", "y", "_", "p", "r", "o", "m", "o", "t", "e", "dquote", "}",
        "}", "\n" >>, mode |-> wireModeJSONLine, payload |-> << "{", "dquote", "i", "d",
        "dquote", ":", "3", ",", "dquote", "m", "e", "t", "h", "o", "d", "dquote", ":",
        "dquote", "t", "o", "o", "l", "s", "/", "c", "a", "l", "l", "dquote", ",",
        "dquote", "p", "a", "r", "a", "m", "s", "dquote", ":", "{", "dquote", "n", "a",
        "m", "e", "dquote", ":", "dquote", "m", "e", "m", "o", "r", "y", "_", "p", "r",
        "o", "m", "o", "t", "e", "dquote", "}", "}" >>],
   \* the handshake, with a string id
   LineInitialize |-> [bytes |-> << "{", "dquote", "i", "d", "dquote", ":", "dquote",
        "a", "dquote", ",", "dquote", "m", "e", "t", "h", "o", "d", "dquote", ":",
        "dquote", "i", "n", "i", "t", "i", "a", "l", "i", "z", "e", "dquote", ",",
        "dquote", "p", "a", "r", "a", "m", "s", "dquote", ":", "{", "dquote", "p", "r",
        "o", "t", "o", "c", "o", "l", "V", "e", "r", "s", "i", "o", "n", "dquote", ":",
        "dquote", "1", "dquote", "}", "}", "\n" >>, mode |-> wireModeJSONLine, payload
        |-> << "{", "dquote", "i", "d", "dquote", ":", "dquote", "a", "dquote", ",",
        "dquote", "m", "e", "t", "h", "o", "d", "dquote", ":", "dquote", "i", "n", "i",
        "t", "i", "a", "l", "i", "z", "e", "dquote", ",", "dquote", "p", "a", "r", "a",
        "m", "s", "dquote", ":", "{", "dquote", "p", "r", "o", "t", "o", "c", "o", "l",
        "V", "e", "r", "s", "i", "o", "n", "dquote", ":", "dquote", "1", "dquote", "}",
        "}" >>],
   \* the tool catalog
   LineToolsList |-> [bytes |-> << "{", "dquote", "i", "d", "dquote", ":", "4", ",",
        "dquote", "m", "e", "t", "h", "o", "d", "dquote", ":", "dquote", "t", "o", "o",
        "l", "s", "/", "l", "i", "s", "t", "dquote", "}", "\n" >>, mode |->
        wireModeJSONLine, payload |-> << "{", "dquote", "i", "d", "dquote", ":", "4",
        ",", "dquote", "m", "e", "t", "h", "o", "d", "dquote", ":", "dquote", "t", "o",
        "o", "l", "s", "/", "l", "i", "s", "t", "dquote", "}" >>],
   \* a write whose metadata has the key the text search keeps its rank under
   LineWritePoison |-> [bytes |-> << "{", "dquote", "i", "d", "dquote", ":", "5",
        ",", "dquote", "m", "e", "t", "h", "o", "d", "dquote", ":", "dquote", "t",
        "o", "o", "l", "s", "/", "c", "a", "l", "l", "dquote", ",", "dquote", "p",
        "a", "r", "a", "m", "s", "dquote", ":", "{", "dquote", "n", "a", "m", "e",
        "dquote", ":", "dquote", "m", "e", "m", "o", "r", "y", "_", "w", "r", "i",
        "t", "e", "dquote", ",", "dquote", "a", "r", "g", "u", "m", "e", "n", "t",
        "s", "dquote", ":", "{", "dquote", "n", "a", "m", "e", "s", "p", "a", "c",
        "e", "dquote", ":", "dquote", "a", "/", "b", "dquote", ",", "dquote", "c",
        "o", "n", "t", "e", "n", "t", "dquote", ":", "dquote", "d", "b", " ", "o",
        "k", "dquote", ",", "dquote", "m", "e", "t", "a", "d", "a", "t", "a",
        "dquote", ":", "{", "dquote", "_", "b", "m", "2", "5", "dquote", ":",
        "dquote", "x", "dquote", "}", "}", "}", "}", "\n" >>, mode |-> wireModeJSONLine,
        payload |-> << "{", "dquote", "i", "d", "dquote", ":", "5", ",", "dquote",
        "m", "e", "t", "h", "o", "d", "dquote", ":", "dquote", "t", "o", "o", "l",
        "s", "/", "c", "a", "l", "l", "dquote", ",", "dquote", "p", "a", "r", "a",
        "m", "s", "dquote", ":", "{", "dquote", "n", "a", "m", "e", "dquote", ":",
        "dquote", "m", "e", "m", "o", "r", "y", "_", "w", "r", "i", "t", "e",
        "dquote", ",", "dquote", "a", "r", "g", "u", "m", "e", "n", "t", "s",
        "dquote", ":", "{", "dquote", "n", "a", "m", "e", "s", "p", "a", "c", "e",
        "dquote", ":", "dquote", "a", "/", "b", "dquote", ",", "dquote", "c", "o",
        "n", "t", "e", "n", "t", "dquote", ":", "dquote", "d", "b", " ", "o", "k",
        "dquote", ",", "dquote", "m", "e", "t", "a", "d", "a", "t", "a", "dquote",
        ":", "{", "dquote", "_", "b", "m", "2", "5", "dquote", ":", "dquote", "x",
        "dquote", "}", "}", "}", "}" >>],
   \* a search
   LineSearch |-> [bytes |-> << "{", "dquote", "i", "d", "dquote", ":", "6", ",",
        "dquote", "m", "e", "t", "h", "o", "d", "dquote", ":", "dquote", "t", "o",
        "o", "l", "s", "/", "c", "a", "l", "l", "dquote", ",", "dquote", "p", "a",
        "r", "a", "m", "s", "dquote", ":", "{", "dquote", "n", "a", "m", "e",
        "dquote", ":", "dquote", "m", "e", "m", "o", "r", "y", "_", "s", "e", "a",
        "r", "c", "h", "dquote", ",", "dquote", "a", "r", "g", "u", "m", "e", "n",
        "t", "s", "dquote", ":", "{", "dquote", "n", "a", "m", "e", "s", "p", "a",
        "c", "e", "dquote", ":", "dquote", "a", "/", "b", "dquote", ",", "dquote",
        "q", "u", "e", "r", "y", "dquote", ":", "dquote", "d", "b", "dquote", "}",
        "}", "}", "\n" >>, mode |-> wireModeJSONLine,
        payload |-> << "{", "dquote", "i", "d", "dquote", ":", "6", ",", "dquote",
        "m", "e", "t", "h", "o", "d", "dquote", ":", "dquote", "t", "o", "o", "l",
        "s", "/", "c", "a", "l", "l", "dquote", ",", "dquote", "p", "a", "r", "a",
        "m", "s", "dquote", ":", "{", "dquote", "n", "a", "m", "e", "dquote", ":",
        "dquote", "m", "e", "m", "o", "r", "y", "_", "s", "e", "a", "r", "c", "h",
        "dquote", ",", "dquote", "a", "r", "g", "u", "m", "e", "n", "t", "s",
        "dquote", ":", "{", "dquote", "n", "a", "m", "e", "s", "p", "a", "c", "e",
        "dquote", ":", "dquote", "a", "/", "b", "dquote", ",", "dquote", "q", "u",
        "e", "r", "y", "dquote", ":", "dquote", "d", "b", "dquote", "}", "}", "}" >>],
   \* a context pack that leaves out token_budget
   LinePackNoBudget |-> [bytes |-> << "{", "dquote", "i", "d", "dquote", ":", "7",
        ",", "dquote", "m", "e", "t", "h", "o", "d", "dquote", ":", "dquote", "t",
        "o", "o", "l", "s", "/", "c", "a", "l", "l", "dquote", ",", "dquote", "p",
        "a", "r", "a", "m", "s", "dquote", ":", "{", "dquote", "n", "a", "m", "e",
        "dquote", ":", "dquote", "m", "e", "m", "o", "r", "y", "_", "g", "e", "t",
        "_", "c", "o", "n", "t", "e", "x", "t", "_", "p", "a", "c", "k", "dquote",
        ",", "dquote", "a", "r", "g", "u", "m", "e", "n", "t", "s", "dquote", ":",
        "{", "dquote", "n", "a", "m", "e", "s", "p", "a", "c", "e", "dquote", ":",
        "dquote", "a", "/", "b", "dquote", ",", "dquote", "q", "u", "e", "r", "y",
        "dquote", ":", "dquote", "d", "b", "dquote", "}", "}", "}", "\n" >>, mode |-> wireModeJSONLine,
        payload |-> << "{", "dquote", "i", "d", "dquote", ":", "7", ",", "dquote",
        "m", "e", "t", "h", "o", "d", "dquote", ":", "dquote", "t", "o", "o", "l",
        "s", "/", "c", "a", "l", "l", "dquote", ",", "dquote", "p", "a", "r", "a",
        "m", "s", "dquote", ":", "{", "dquote", "n", "a", "m", "e", "dquote", ":",
        "dquote", "m", "e", "m", "o", "r", "y", "_", "g", "e", "t", "_", "c", "o",
        "n", "t", "e", "x", "t", "_", "p", "a", "c", "k", "dquote", ",", "dquote",
        "a", "r", "g", "u", "m", "e", "n", "t", "s", "dquote", ":", "{", "dquote",
        "n", "a", "m", "e", "s", "p", "a", "c", "e", "dquote", ":", "dquote", "a",
        "/", "b", "dquote", ",", "dquote", "q", "u", "e", "r", "y", "dquote", ":",
        "dquote", "d", "b", "dquote", "}", "}", "}" >>],
   \* a write that leaves out every field
   LineWriteEmpty |-> [bytes |-> << "{", "dquote", "i", "d", "dquote", ":", "8", ",",
        "dquote", "m", "e", "t", "h", "o", "d", "dquote", ":", "dquote", "t", "o",
        "o", "l", "s", "/", "c", "a", "l", "l", "dquote", ",", "dquote", "p", "a",
        "r", "a", "m", "s", "dquote", ":", "{", "dquote", "n", "a", "m", "e",
        "dquote", ":", "dquote", "m", "e", "m", "o", "r", "y", "_", "w", "r", "i",
        "t", "e", "dquote", ",", "dquote", "a", "r", "g", "u", "m", "e", "n", "t",
        "s", "dquote", ":", "{", "}", "}", "}", "\n" >>, mode |-> wireModeJSONLine,
        payload |-> << "{", "dquote", "i", "d", "dquote", ":", "8", ",", "dquote",
        "m", "e", "t", "h", "o", "d", "dquote", ":", "dquote", "t", "o", "o", "l",
        "s", "/", "c", "a", "l", "l", "dquote", ",", "dquote", "p", "a", "r", "a",
        "m", "s", "dquote", ":", "{", "dquote", "n", "a", "m", "e", "dquote", ":",
        "dquote", "m", "e", "m", "o", "r", "y", "_", "w", "r", "i", "t", "e",
        "dquote", ",", "dquote", "a", "r", "g", "u", "m", "e", "n", "t", "s",
        "dquote", ":", "{", "}", "}", "}" >>],
   \* a promotion of the first entry
   LinePromote |-> [bytes |-> << "{", "dquote", "i", "d", "dquote", ":", "9", ",",
        "dquote", "m", "e", "t", "h", "o", "d", "dquote", ":", "dquote", "t", "o",
        "o", "l", "s", "/", "c", "a", "l", "l", "dquote", ",", "dquote", "p", "a",
        "r", "a", "m", "s", "dquote", ":", "{", "dquote", "n", "a", "m", "e",
        "dquote", ":", "dquote", "m", "e", "m", "o", "r", "y", "_", "p", "r", "o",
        "m", "o", "t", "e", "dquote", ",", "dquote", "a", "r", "g", "u", "m", "e",
        "n", "t", "s", "dquote", ":", "{", "dquote", "m", "e", "m", "o", "r", "y",
        "_", "i", "d", "dquote", ":", "dquote", "m", "1", "dquote", "}", "}", "}",
        "\n" >>, mode |-> wireModeJSONLine,
        payload |-> << "{", "dquote", "i", "d", "dquote", ":", "9", ",", "dquote",
        "m", "e", "t", "h", "o", "d", "dquote", ":", "dquote", "t", "o", "o", "l",
        "s", "/", "c", "a", "l", "l", "dquote", ",", "dquote", "p", "a", "r", "a",
        "m", "s", "dquote", ":", "{", "dquote", "n", "a", "m", "e", "dquote", ":",
        "dquote", "m", "e", "m", "o", "r", "y", "_", "p", "r", "o", "m", "o", "t",
        "e", "dquote", ",", "dquote", "a", "r", "g", "u", "m", "e", "n", "t", "s",
        "dquote", ":", "{", "dquote", "m", "e", "m", "o", "r", "y", "_", "i", "d",
        "dquote", ":", "dquote", "m", "1", "dquote", "}", "}", "}" >>],
   \* a notification of an unknown method
   NotifyUnknown |-> [bytes |-> << "{", "dquote", "m", "e", "t", "h", "o", "d",
        "dquote", ":", "dquote", "n", "o", "p", "dquote", "}", "\n" >>, mode |-> wireModeJSONLine,
        payload |-> << "{", "dquote", "m", "e", "t", "h", "o", "d", "dquote", ":",
        "dquote", "n", "o", "p", "dquote", "}" >>],
   \* a notification that calls a tool that does not exist
   NotifyTool |-> [bytes |-> << "{", "dquote", "m", "e", "t", "h", "o", "d",
        "dquote", ":", "dquote", "t", "o", "o", "l", "s", "/", "c", "a", "l", "l",
        "dquote", ",", "dquote", "p", "a", "r", "a", "m", "s", "dquote", ":", "{",
        "dquote", "n", "a", "m", "e", "dquote", ":", "dquote", "n", "o", "p", "e",
        "dquote", "}", "}", "\n" >>, mode |-> wireModeJSONLine,
        payload |-> << "{", "dquote", "m", "e", "t", "h", "o", "d", "dquote", ":",
        "dquote", "t", "o", "o", "l", "s", "/", "c", "a", "l", "l", "dquote", ",",
        "dquote", "p", "a", "r", "a", "m", "s", "dquote", ":", "{", "dquote", "n",
        "a", "m", "e", "dquote", ":", "dquote", "n", "o", "p", "e", "dquote", "}", "}" >>],
   \* a request of an unknown method whose id is null
   LineNullID |-> [bytes |-> << "{", "dquote", "i", "d", "dquote", ":", "n", "u",
        "l", "l", ",", "dquote", "m", "e", "t", "h", "o", "d", "dquote", ":",
        "dquote", "n", "o", "p", "dquote", "}", "\n" >>, mode |-> wireModeJSONLine,
        payload |-> << "{", "dquote", "i", "d", "dquote", ":", "n", "u", "l", "l",
        ",", "dquote", "m", "e", "t", "h", "o", "d", "dquote", ":", "dquote", "n",
        "o", "p", "dquote", "}" >>],
   \* the handshake sent as a notification
   NotifyInitialize |-> [bytes |-> << "{", "dquote", "m", "e", "t", "h", "o", "d",
        "dquote", ":", "dquote", "i", "n", "i", "t", "i", "a", "l", "i", "z", "e",
        "dquote", "}", "\n" >>, mode |-> wireModeJSONLine,
        payload |-> << "{", "dquote", "m", "e", "t", "h", "o", "d", "dquote", ":",
        "dquote", "i", "n", "i", "t", "i", "a", "l", "i", "z", "e", "dquote", "}" >>],
   \* the tool catalog asked for in a notification
   NotifyToolsList |-> [bytes |-> << "{", "dquote", "m", "e", "t", "h", "o", "d",
        "dquote", ":", "dquote", "t", "o", "o", "l", "s", "/", "l", "i", "s", "t",
        "dquote", "}", "\n" >>, mode |-> wireModeJSONLine,
        payload |-> << "{", "dquote", "m", "e", "t", "h", "o", "d", "dquote", ":",
        "dquote", "t", "o", "o", "l", "s", "/", "l", "i", "s", "t", "dquote", "}" >>]]

\* the messages a stream is made of
Messages == {Msg[k] : k \in DOMAIN Msg}

\* the input streams: up to MaxMessages messages, one after the other
Streams == UNION {[1..n -> Messages] : n \in 0..MaxMessages}

RECURSIVE BytesOf(_)
BytesOf(ms) == IF ms = << >> THEN << >> ELSE ms[1].bytes \o BytesOf(Tail(ms))

\* the server started on a stream
InitServe ==
  /\ InitStore
  /\ sent \in Streams
  /\ input = BytesOf(sent)
  /\ output = << >>
  /\ served = << >>
  /\ serving = "run"
  /\ log = << >>
  /\ cancelled = FALSE
  /\ sweeper = "run"

\* the server started on a short stream: a request, a notification, a call of
\* a tool, a frame that cannot be read
InitRun ==
  /\ InitServe
  /\ \A i \in DOMAIN sent :
        sent[i] \in {Msg.LinePing, Msg.NotifyUnknown, Msg.LineWriteEmpty, Msg.FramedNoLength}

\* the lifecycle of entries: writes that vary scope and TTL, promotions, sweeps
\* and searches, while the clock advances
Next ==
  \/ \E in \in Requests.LifeWrites : nextId < MaxEntries /\ Write(in, TRUE)
  \/ \E in \in Requests.LifeSearches : Search(in, FALSE)
  \/ \E in \in PromoteInputs : PromoteBegin(in)
  \/ PromoteFinish
  \/ ExpireShort(TRUE)
  \/ Tick

Spec == Init /\ [][Next]_vars

\* retrieval: searches and context packs over writes that vary namespace, text,
\* importance and scope, at one instant
NextRetrieval ==
  \/ \E in \in Requests.TextWrites : nextId < MaxTexts /\ Write(in, TRUE)
  \/ \E in \in Requests.TextSearches : Search(in, FALSE)
  \/ \E in \in Requests.TextPacks : ContextPack(in)

SpecRetrieval == Init /\ [][NextRetrieval]_vars

\* context packs over one namespace whose texts repeat after normalisation
NextPack ==
  \/ \E in \in Requests.PackWrites : nextId < MaxTexts /\ Write(in, TRUE)
  \/ \E in \in Requests.PackInputs : ContextPack(in)

SpecPack == Init /\ [][NextPack]_vars

\* validation: good and bad requests of every operation that validates
NextValidate ==
  \/ \E in \in Requests.ValidateWrites : nextId < MaxEntries /\ Write(in, TRUE)
  \/ \E in \in Requests.ValidateSearches : Search(in, FALSE)
  \/ \E in \in PromoteInputs : PromoteBegin(in)
  \/ PromoteFinish

SpecValidate == Init /\ [][NextValidate]_vars

\* the server's loop over a stream of messages, beside the ttl worker, until
\* the stream ends or the process is told to stop
NextServe ==
  \/ ServeRead
  \/ \E storeFails \in BOOLEAN : ServeHandle(storeFails)
  \/ ServeCancelled
  \/ Cancel
  \/ SweeperStop
  \/ serving = "run" /\ ExpireShort(TRUE)

SpecServe == InitServe /\ [][NextServe]_vars

\* the same on short streams, scheduled: a select whose ctx.Done() case is ready
\* (and, in Serve, is the only one beside default) takes it
SpecRun ==
  /\ InitRun /\ [][NextServe]_vars
  /\ WF_vars(ServeCancelled)
  /\ WF_vars(SweeperStop)

\* the store when statements on the index fail: the insert into it, the query
\* on it, the delete of its orphaned rows
NextFaults ==
  \/ \E in \in Requests.FaultWrites, indexed \in BOOLEAN :
        nextId < MaxEntries /\ Write(in, indexed)
  \/ \E in \in Requests.FaultSearches, indexFails \in BOOLEAN : Search(in, indexFails)
  \/ \E reconciled \in BOOLEAN : ExpireShort(reconciled)
  \/ Tick

SpecFaults == Init /\ [][NextFaults]_vars

\* the ttl worker beside writes of entries that expire soon: its sweeps go
\* through or fail, until the process is told to stop and the worker returns
NextWorker ==
  \/ \E in \in Requests.LifeWrites : nextId < MaxEntries /\ Write(in, TRUE)
  \/ ExpireShort(TRUE)
  \/ ExpireShortFails
  \/ Tick
  \/ Cancel
  \/ SweeperStop

SpecWorker == Init /\ [][NextWorker]_vars

(***************************************************************************)
(* Properties.                                                             *)
(***************************************************************************)
\* the request asked for the long scope (its scope is "long" once trimmed and
\* lower-cased)
AsksLong(in) == Fields(ToLower(in.Scope)) = << ScopeLong >>

\* C1: a successful Write returns an entry whose scope is short unless the
\* request's scope was long, and whose expiresAt is set if and only if its
\* scope is short; a long write has no expiresAt even when ttl_seconds is given.
C1_WriteScopeAndExpiry ==
  (ret.op = "write" /\ ret.err = "") =>
    /\ ret.out.Scope = (IF AsksLong(ret.in) THEN ScopeLong ELSE ScopeShort)
    /\ (ret.out.ExpiresAt # Nil) <=> (ret.out.Scope = ScopeShort)

\* a long write that gave ttl_seconds, and came back without an expiry
C1_Witness ==
  /\ ret.op = "write" /\ ret.err = ""
  /\ ret.in.Scope = Sample.ScopeMixed /\ ret.in.TTLSeconds = 1
  /\ ret.out.Scope = ScopeLong /\ ret.out.ExpiresAt = Nil

\* the query is one of the whitespace-separated words of the content
IsWordOf(query, content) == \E i \in DOMAIN Fields(content) : Fields(content)[i] = query

\* C2: read-your-writes.  A search that follows a successful write at once
\* (same instant, no step between), on the write's namespace, without a scope
\* filter and with a word of the written content as its query, returns the
\* written entry with a lexical score above 0, provided the entries stored
\* before the write are fewer than the candidate limit 3*K.
C2_ReadYourWrites ==
  [][(/\ ret.op = "write" /\ ret.err = ""
      /\ ret'.op = "search" /\ ret'.err = ""
      /\ ret'.at = ret.at
      /\ ret'.in.Namespace = ret.in.Namespace
      /\ ret'.in.Scope = << >>
      /\ IsWordOf(ret'.in.Query, ret.out.Content)
      /\ Len(mem) - 1 < 3 * EffectiveK(ret'.in.K))
     => \E i \in DOMAIN ret'.out.results :
           /\ ret'.out.results[i].Record.ID = ret.out.ID
           /\ ret'.out.results[i].LexicalScore > 0]_vars

\* C3: a Promote with target scope empty or "long" on the id of an existing
\* short entry succeeds; the record it returns has scope long, no expiresAt, a
\* promotedAt, and lastAccessedAt equal to promotedAt, and is the stored row
\* as the update left it.
C3_PromoteShort ==
  (/\ ret.op = "promote"
   /\ ret.pre # << >>
   /\ ret.pre[1].scope = ScopeShort
   /\ ret.in.TargetScope \in {<< >>, ScopeLong})
  => /\ ret.err = ""
     /\ ret.out.Scope = ScopeLong
     /\ ret.out.ExpiresAt = Nil
     /\ ret.out.PromotedAt # Nil
     /\ ret.out.LastAccessedAt = ret.out.PromotedAt[1]
     /\ RowOf(ret.out) = [ret.pre[1] EXCEPT !.scope = ScopeLong, !.expires_at = Nil,
                                            !.promoted_at = Some(FormatTime(ret.at)),
                                            !.last_accessed_at = FormatTime(ret.at)]

\* a short entry with an expiry was promoted and came back long
C3_Witness ==
  /\ ret.op = "promote" /\ ret.err = ""
  /\ ret.pre # << >>
  /\ ret.pre[1].scope = ScopeShort /\ ret.pre[1].expires_at # Nil
  /\ ret.out.Scope = ScopeLong /\ ret.out.ExpiresAt = Nil

\* C4: a Promote on an entry whose scope is already long is rejected with an
\* error, and the entry (promotedAt and lastAccessedAt included) stays as it
\* was.
C4_PromoteLongRejected ==
  /\ (ret.op = "promote" /\ ret.pre # << >> /\ ret.pre[1].scope = ScopeLong)
       => ret.err # ""
  /\ (pend # Nil /\ pend[1].pre[1].scope = ScopeLong)
       => RowById(mem, pend[1].in.MemoryID) = pend[1].pre

\* the entry is short and its expiry is at or before t, as points in time
DueAt(row, t) ==
  row.scope = ScopeShort /\ row.expires_at # Nil /\ ParseTime(row.expires_at[1]) <= t

\* C5: a sweep at time T deletes exactly the short entries with expiresAt <= T
\* (no entry with expiresAt > T, no long entry) and returns how many it
\* deleted; with no such entry it changes nothing and returns 0.
C5_SweepExact ==
  [][(ret'.op = "expire" /\ ret' # ret)
     => /\ mem' = SelectSeq(mem, LAMBDA r : ~DueAt(r, now))
        /\ ret'.out = Len(mem) - Len(mem')]_vars

\* the least k >= 1 with 4 * k >= n: ceil(n / 4) with a floor of 1
CeilQuarter(n) == CHOOSE k \in 1..(n + 1) : 4 * k >= n /\ (k = 1 \/ 4 * (k - 1) < n)

\* C6: the estimated_tokens a ContextPack reports is the sum over its lines of
\* ceil(length / 4) (at least 1 each), and is at most the budget, a
\* non-positive budget counting as 512.
C6_PackWithinBudget ==
  (ret.op = "pack" /\ ret.err = "") =>
    LET p == ret.out.pack
    IN  /\ p.EstimatedTokens = SumSeq([i \in DOMAIN p.Lines |-> CeilQuarter(Len(p.Lines[i]))])
        /\ p.EstimatedTokens <= (IF ret.in.TokenBudget <= 0 THEN 512 ELSE ret.in.TokenBudget)
        /\ p.Text = Join(p.Lines, << "\n" >>)

\* a pack that stopped at its budget: several distinct texts were ranked, one
\* line fitted
C6_Witness ==
  /\ ret.op = "pack" /\ ret.err = ""
  /\ ret.in.TokenBudget = 5
  /\ Len(ret.out.pack.Lines) = 1
  /\ ret.out.pack.EstimatedTokens > 0
  /\ \E i, j \in DOMAIN ret.out.results :
        normalize(DisplayText(ret.out.results[i].Record))
          # normalize(DisplayText(ret.out.results[j].Record))

\* the normalized form of a text: lower-cased, whitespace runs collapsed to one
\* space, cut to 180 characters (the last three of them an ellipsis)
NormalForm(s) ==
  LET folded == Join(Fields(ToLower(s)), << " " >>)
  IN  IF Len(folded) <= 180 THEN folded
      ELSE SubSeq(folded, 1, 177) \o << ".", ".", "." >>

\* the text a result shows: its trimmed summary, else its trimmed content
ShownText(rec) ==
  LET sum == TrimSpace(rec.Summary)
  IN  IF sum # << >> THEN sum ELSE TrimSpace(rec.Content)

\* C7: of two ranked results whose display texts have the same normalized form,
\* the lower-ranked one contributes no id to the pack; the pack has one line
\* per id and no id twice.
C7_PackDedup ==
  (ret.op = "pack" /\ ret.err = "") =>
    LET rs  == ret.out.results
        ids == ret.out.pack.MemoryIDs
    IN  /\ \A i, j \in DOMAIN rs :
              (/\ i < j
               /\ ShownText(rs[i].Record) # << >>
               /\ NormalForm(ShownText(rs[i].Record)) = NormalForm(ShownText(rs[j].Record)))
              => \A k \in DOMAIN ids : ids[k] # rs[j].Record.ID
        /\ Len(ret.out.pack.Lines) = Len(ids)
        /\ \A k, l \in DOMAIN ids : ids[k] = ids[l] => k = l

\* two ranked results differ in text, agree in normalized form, and only the
\* higher-ranked one is in the pack
C7_Witness ==
  /\ ret.op = "pack" /\ ret.err = ""
  /\ \E i, j \in DOMAIN ret.out.results :
        LET a == ret.out.results[i].Record
            b == ret.out.results[j].Record
        IN  /\ i < j
            /\ ShownText(a) # ShownText(b)
            /\ NormalForm(ShownText(a)) = NormalForm(ShownText(b))
            /\ \E k \in DOMAIN ret.out.pack.MemoryIDs : ret.out.pack.MemoryIDs[k] = a.ID
            /\ \A k \in DOMAIN ret.out.pack.MemoryIDs : ret.out.pack.MemoryIDs[k] # b.ID

\* C9: every entry a search returns has no expiresAt or an expiresAt later
\* than the time of the search.
C9_NoExpiredResult ==
  (ret.op = "search" /\ ret.err = "") =>
    \A i \in DOMAIN ret.out.results :
       LET rec == ret.out.results[i].Record
       IN  rec.ExpiresAt = Nil \/ rec.ExpiresAt[1] > ret.at

\* the store as it would be had no other namespace ever been written to
OwnRows(m, namespace) == SelectSeq(m, LAMBDA r : r.namespace = namespace)
OwnIndex(index, m, namespace) ==
  SelectSeq(index, LAMBDA f : \E i \in DOMAIN m : m[i].id = f.id /\ m[i].namespace = namespace)

\* what the last search or pack returns over the store of its namespace alone
AloneOut ==
  IF ret.op = "search"
  THEN LET r == ServiceSearch(OwnRows(mem, ret.in.Namespace),
                              OwnIndex(fts, mem, ret.in.Namespace), ftsEnabled, ret.in, ret.at)
       IN  [cands |-> r.cands, results |-> r.results]
  ELSE LET r == ServiceContextPack(OwnRows(mem, ret.in.Namespace),
                                   OwnIndex(fts, mem, ret.in.Namespace), ftsEnabled, ret.in,
                                   ret.at)
       IN  [results |-> r.results, pack |-> r.pack]

\* every returned entry is of the requested namespace and, under a scope
\* filter, of that scope; the pack's ids are ids of returned entries
OnlyRequested ==
  /\ \A i \in DOMAIN ret.out.results :
        /\ ret.out.results[i].Record.Namespace = ret.in.Namespace
        /\ (NormalScope(ret.in.Scope) # << >>
              => ret.out.results[i].Record.Scope = NormalScope(ret.in.Scope))
  /\ ret.op = "pack" =>
        \A k \in DOMAIN ret.out.pack.MemoryIDs :
           \E i \in DOMAIN ret.out.results :
              ret.out.results[i].Record.ID = ret.out.pack.MemoryIDs[k]

\* the search went down the substring scan: no index, no token in the query, or
\* no row from the index
OnFallback ==
  LET terms == tokenizeQueryTerms(TrimSpace(ret.in.Query))
  IN  \/ ~ftsEnabled
      \/ terms = << >>
      \/ searchFTS(mem, fts, ret.in.Namespace, terms, NormalScope(ret.in.Scope),
                   3 * (IF ret.op = "pack" THEN EffectivePackK(ret.in.K)
                        ELSE EffectiveK(ret.in.K)), ret.at) = << >>

C11_ExpiryIffShort ==
  \A i \in DOMAIN mem : (mem[i].expires_at # Nil) <=> (mem[i].scope = ScopeShort)

\* the store holds a short entry with an expiry next to a promoted entry
\* without one
C11_Witness ==
  \E i, j \in DOMAIN mem :
     /\ mem[i].scope = ScopeShort /\ mem[i].expires_at # Nil
     /\ mem[j].promoted_at # Nil /\ mem[j].scope = ScopeLong /\ mem[j].expires_at = Nil

\* C12: every stored entry whose promotedAt is set has scope long and no
\* expiresAt, and no step (a sweep in particular) removes such an entry.
C12_PromotedIsLong ==
  [][/\ \A j \in DOMAIN mem' :
           mem'[j].promoted_at # Nil
             => (mem'[j].scope = ScopeLong /\ mem'[j].expires_at = Nil)
     /\ \A i \in DOMAIN mem :
           mem[i].promoted_at # Nil => \E j \in DOMAIN mem' : mem'[j].id = mem[i].id]_vars

\* a sweep ran after an entry's promotion, and the entry is still stored
C12_Witness ==
  /\ ret.op = "expire"
  /\ \E i \in DOMAIN mem :
        /\ mem[i].promoted_at # Nil
        /\ ParseTime(mem[i].promoted_at[1]) < ret.at
        /\ ParseTime(mem[i].created_at) < ParseTime(mem[i].promoted_at[1])

\* C13: promotedAt is set exactly once.  It is null from creation on; a step
\* sets it only while it takes the entry from short to long; once it is set, no
\* step changes its value.
C13_PromotedAtOnce ==
  [][/\ \A j \in DOMAIN mem' :
           (\A i \in DOMAIN mem : mem[i].id # mem'[j].id) => mem'[j].promoted_at = Nil
     /\ \A i \in DOMAIN mem : \A j \in DOMAIN mem' :
           mem[i].id = mem'[j].id =>
             /\ mem[i].promoted_at # Nil => mem'[j].promoted_at = mem[i].promoted_at
             /\ (mem[i].promoted_at = Nil /\ mem'[j].promoted_at # Nil)
                  => (mem[i].scope = ScopeShort /\ mem'[j].scope = ScopeLong)]_vars

\* C14: an entry's id, namespace, content, summary, importance and createdAt
\* never change; a stored entry changes only by a Promote on its id, and then
\* only in scope, expiresAt, promotedAt and lastAccessedAt; an entry disappears
\* only by a sweep at a time at or after its expiresAt while its scope is
\* short.
C14_Frame ==
  [][/\ \A i \in DOMAIN mem : \A j \in DOMAIN mem' :
           mem[i].id = mem'[j].id =>
             /\ mem'[j].namespace = mem[i].namespace
             /\ mem'[j].content = mem[i].content
             /\ mem'[j].summary = mem[i].summary
             /\ mem'[j].importance = mem[i].importance
             /\ mem'[j].created_at = mem[i].created_at
             /\ mem'[j] # mem[i]
                  => (pend = Nil /\ pend' # Nil /\ pend'[1].in.MemoryID = mem[i].id)
     /\ \A i \in DOMAIN mem :
           (\A j \in DOMAIN mem' : mem'[j].id # mem[i].id)
             => /\ ret'.op = "expire" /\ ret' # ret
                /\ mem[i].scope = ScopeShort
                /\ mem[i].expires_at # Nil
                /\ ParseTime(mem[i].expires_at[1]) <= now]_vars

\* C15: a Search or a ContextPack leaves the stored entries, every field of
\* them, and the index as they were.
C15_ReadsDoNotMutate ==
  [][(ret'.op \in {"search", "pack"} /\ ret' # ret)
       => (mem' = mem /\ fts' = fts /\ nextId' = nextId)]_vars

\* a search returned a short entry and a pack was built from stored entries
C15_Witness ==
  /\ ret.op \in {"search", "pack"} /\ ret.err = ""
  /\ \E i \in DOMAIN ret.out.results :
        /\ ret.out.results[i].Record.ExpiresAt # Nil
        /\ \E k \in DOMAIN mem : mem[k].id = ret.out.results[i].Record.ID

\* a namespace that is empty or does not match the pattern
BadNamespace(ns) == ns = << >> \/ ~NamespaceMatch(ns)

\* a scope that, trimmed and lower-cased, is neither empty nor short nor long
BadScope(scope) == TrimSpace(ToLower(scope)) \notin {<< >>, ScopeShort, ScopeLong}

\* the request is one that validation has to reject
InvalidRequest(op, in) ==
  \/ /\ op = "write"
     /\ (BadNamespace(in.Namespace) \/ BadScope(in.Scope) \/ TrimSpace(in.Content) = << >>)
  \/ /\ op = "search"
     /\ (BadNamespace(in.Namespace) \/ BadScope(in.Scope))
  \/ /\ op = "promote"
     /\ (TrimSpace(in.MemoryID) = << >> \/ in.TargetScope \notin {<< >>, ScopeLong})

\* C16: a Write with a namespace that is empty or does not match the pattern,
\* a bad scope or blank content, a Search with such a namespace or scope, and a
\* Promote with an empty id or a target scope other than long return an error,
\* start no store operation and leave the store as it was.
C16_RejectedBeforeStorage ==
  [][(ret' # ret /\ InvalidRequest(ret'.op, ret'.in))
       => /\ ret'.err # ""
          /\ mem' = mem /\ fts' = fts /\ nextId' = nextId /\ pend' = pend]_vars

\* C17: a Promote with a valid request whose id matches no stored entry (never
\* written, or removed by the sweep) returns a not-found error and leaves the
\* store as it was.
C17_PromoteNotFound ==
  [][(/\ ret' # ret
      /\ ret'.op = "promote"
      /\ ~InvalidRequest("promote", ret'.in)
      /\ RowById(mem, ret'.in.MemoryID) = << >>)
       => /\ ret'.err = "memory not found"
          /\ mem' = mem /\ fts' = fts /\ nextId' = nextId
          /\ pend' = Nil]_vars

\* a Promote on the id of an entry that was written and then swept came back
\* not found
C17_Witness ==
  /\ ret.op = "promote" /\ ret.err = "memory not found"
  /\ ret.in.MemoryID = IdOf(1)
  /\ nextId >= 1
  /\ RowById(mem, IdOf(1)) = << >>

\* the bytes are one frame: the length header, an empty line, and exactly as
\* many bytes as the header declares
IsFrame(b) ==
  LET cr == FirstIndex(b, "\r")
      digits == SubSeq(b, Len(Lit.ContentLengthHeader) + 1, cr - 1)
  IN  /\ HasPrefix(b, Lit.ContentLengthHeader)
      /\ cr > Len(Lit.ContentLengthHeader) + 1
      /\ \A i \in DOMAIN digits : digits[i] \in AsciiChars /\ IsDigit(digits[i])
      /\ digits[1] # "0"
      /\ SubSeq(b, cr, cr + 3) = Lit.HeaderEnd
      /\ Len(b) - (cr + 3) = DigitsValue(digits)

\* the bytes are one line: they end in a newline and hold no other
IsLine(b) ==
  /\ b # << >>
  /\ b[Len(b)] = "\n"
  /\ \A i \in 1..(Len(b) - 1) : b[i] # "\n"

\* C18: every reply the server writes, the error reply to a malformed message
\* included, is a frame if and only if the request it answers was read in
\* framed mode, and is a single newline-terminated line otherwise.
C18_ReplySymmetric ==
  \A i \in DOMAIN served :
     served[i].wrote # Nil =>
       /\ IsFrame(served[i].wrote[1]) <=> (served[i].mode = wireModeFramed)
       /\ served[i].mode # wireModeFramed => IsLine(served[i].wrote[1])

\* C19: each message is decoded by its leading bytes.  After leading white
\* space, a message that begins with the length header in any case is read as
\* a frame (headers up to the empty line, then exactly the declared number of
\* bytes); any other is read as one trimmed line, blank lines skipped.  Serve
\* reads the messages of the stream in order, each in the encoding and with
\* the payload its sender gave it, and stops early only at a frame that
\* declares no payload.
C19_WireModeDetection ==
  /\ Len(served) <= Len(sent)
  /\ \A i \in DOMAIN served :
        /\ served[i].mode = sent[i].mode
        /\ served[i].payload = sent[i].payload
  /\ serving = "eof" => Len(served) = Len(sent)
  /\ serving = "error" => (Len(served) < Len(sent) /\ sent[Len(served) + 1] = Msg.FramedNoLength)

\* a frame with a lower-case header after white space, then an indented line
\* after a blank one, were both read
C19_Witness ==
  /\ sent = << Msg.FramedUnknown, Msg.LineNotify >>
  /\ Len(served) = 2
  /\ served[1].mode = wireModeFramed /\ served[1].payload = Msg.FramedUnknown.payload
  /\ served[2].mode = wireModeJSONLine /\ served[2].payload = Msg.LineNotify.payload
  /\ serving = "eof"

\* C20: the wire mode is detected once, on the first message of the stream;
\* every later message is decoded in that mode.
C20_ModeFixed ==
  \A i \in DOMAIN served : served[i].mode = served[1].mode

\* the request a message that was dispatched decoded to
RequestOf(i) == served[i].req

\* the message was dispatched, and was a parseable envelope
Handled(i) == served[i].done /\ served[i].parsed

\* C21: a parseable message with no id never produces a reply, whatever its
\* method, and also when handling it fails.
C21_NotificationsSilent ==
  \A i \in DOMAIN served :
     (Handled(i) /\ RequestOf(i).ID = << >>) => served[i].wrote = Nil

\* a tools/call without an id whose tool does not exist was handled, a failure
\* recorded, and nothing written
C21_Witness ==
  \E i \in DOMAIN served :
     /\ Handled(i)
     /\ served[i].payload = Msg.NotifyTool.payload
     /\ served[i].wrote = Nil
     /\ ~log[i].Success
     /\ output = << >>

\* the methods handle has a case for
KnownMethods ==
  {Lit.MethodInitialized, Lit.MethodInitialize, Lit.MethodPing, Lit.MethodToolsList,
   Lit.MethodToolsCall}

\* the "method not found" reply to message i, carrying the id the request gave
MethodNotFoundReply(i) ==
  writeMessage(errorResponse(Some(RequestOf(i).ID), Lit.CodeMethodNotFound,
                             Lit.TextMethodNotFound, Some(Quote(RequestOf(i).Method))),
               served[i].mode)

\* C22: a message with an unrecognized method is answered if and only if it
\* has an id, and the answer is the protocol-level error "method not found"
\* (code -32601) carrying the id of the request; without an id nothing is
\* written.
C22_UnknownMethod ==
  \A i \in DOMAIN served :
     (Handled(i) /\ RequestOf(i).Method \notin KnownMethods) =>
        IF RequestOf(i).ID = << >> THEN served[i].wrote = Nil
        ELSE served[i].wrote = Some(MethodNotFoundReply(i))

\* the parse-error reply with a null id, in the encoding of a mode
ParseErrorReply(mode) ==
  writeMessage(errorResponse(Some(Lit.NullText), Lit.CodeParseError, Lit.TextParseError,
                             Some(Quote(Lit.TextSyntaxError))),
               mode)

\* C23: a message that cannot be parsed as an envelope gets exactly one reply,
\* the parse error (code -32700) with a null id, and the server goes on with
\* the next message: the step that deals with such a message appends that one
\* reply to the output and leaves the loop running.
C23_ParseErrorNullId ==
  [][\A i \in DOMAIN served :
        (~served[i].done /\ served'[i].done /\ ~served'[i].parsed) =>
           /\ serving' = "run"
           /\ \E mode \in {wireModeFramed, wireModeJSONLine} :
                 output' = output \o ParseErrorReply(mode)]_vars

\* the JSON text of the reply to message i, without its framing or newline
ReplyPayload(i) ==
  LET b == served[i].wrote[1]
      from == FirstIndex(b, "{")
  IN  SubSeq(b, from, IF b[Len(b)] = "\n" THEN Len(b) - 1 ELSE Len(b))

\* the reply to message i has an envelope-level error object
HasEnvelopeError(i) ==
  \E m \in SeqRange(Members(ReplyPayload(i))) : m.key = Quote(<< "e", "r", "r", "o", "r" >>)

\* the texts a failed tool call is answered with
FailureTexts ==
  {Lit.TextInvalidParams, Lit.TextUnknownTool, Lit.TextInvalidArguments, Lit.TextToolFailed}

\* the reply to message i is a result whose isError is true, with one text
\* content item that is not empty
IsToolErrorReply(i) ==
  \E text \in FailureTexts :
     /\ text # << >>
     /\ served[i].wrote = Some(writeMessage(ToolError(decodeID(RequestOf(i).ID), text),
                                            served[i].mode))

\* the tools/call of message i failed: no Service operation was reached, or the
\* one that was called returned an error
ToolCallFailed(i) ==
  /\ RequestOf(i).Method = Lit.MethodToolsCall
  /\ IF served[i].called = Nil THEN TRUE ELSE served[i].called[1].failed

\* C24: tool-level errors are never protocol-level errors.  Every failed
\* tools/call that is answered (validation error, not found, storage error,
\* unknown tool, undecodable arguments) is answered with a result whose isError
\* is true and a text content item, never with an envelope-level error object;
\* the only answers with an envelope-level error object are those to malformed
\* messages and to unknown methods.
C24_ToolErrorsInResult ==
  \A i \in DOMAIN served :
     (served[i].done /\ served[i].wrote # Nil) =>
        /\ (served[i].parsed /\ ToolCallFailed(i)) =>
              (IsToolErrorReply(i) /\ ~HasEnvelopeError(i))
        /\ HasEnvelopeError(i) =>
              (~served[i].parsed \/ RequestOf(i).Method \notin KnownMethods)

\* a promotion of an entry that does not exist reached the Service, failed
\* there, and was answered with an isError result; a malformed message before
\* it was answered with an envelope-level error
C24_Witness ==
  /\ Len(served) = 2
  /\ served[1].done /\ ~served[1].parsed /\ HasEnvelopeError(1)
  /\ served[2].done /\ served[2].payload = Msg.LinePromote.payload
  /\ served[2].called # Nil /\ mem = << >>
  /\ IsToolErrorReply(2) /\ ~HasEnvelopeError(2)

\* C25: every message the serve loop has read and is done with (handled, or
\* the loop has ended) has produced exactly one request-event record: the
\* records handed to the sink are as many as those messages.
C25_OneRecordPerMessage ==
  Len(log) = Cardinality({i \in DOMAIN served : served[i].done \/ serving # "run"})

\* the response to message i carries a protocol error, or a tool result whose
\* isError is true
ResponseFailed(i) ==
  \/ served[i].resp.Error # Nil
  \/ IF served[i].resp.Result = Nil THEN FALSE
     ELSE served[i].resp.Result[1].isError = Some(TRUE)

\* C26: in each request-event record, success is false exactly when the
\* response carries a protocol error or a tool result with isError true, the
\* error text is non-empty exactly when success is false, and the tool name is
\* non-empty only for a tools/call message.
C26_RecordFields ==
  \A i \in DOMAIN log :
     /\ ~log[i].Success <=> ResponseFailed(i)
     /\ log[i].ErrorText # << >> <=> ~log[i].Success
     /\ log[i].ToolName # << >> => RequestOf(i).Method = Lit.MethodToolsCall

\* a failed call of a tool in a notification (recorded with the tool's name,
\* no success and an error text) after a ping (recorded as a success without
\* error text or tool name)
C26_Witness ==
  /\ Len(log) = 2
  /\ served[1].payload = Msg.LinePing.payload
  /\ log[1].Success /\ log[1].ErrorText = << >> /\ log[1].ToolName = << >>
  /\ served[2].payload = Msg.NotifyTool.payload
  /\ ~log[2].Success /\ log[2].ErrorText = Lit.TextUnknownTool
  /\ log[2].ToolName = << "n", "o", "p", "e" >>

\* the replies to the messages read so far, one after the other in the order
\* of the messages
RECURSIVE RepliesTo(_)
RepliesTo(entries) ==
  IF entries = << >> THEN << >>
  ELSE (IF entries[1].wrote = Nil THEN << >> ELSE entries[1].wrote[1])
         \o RepliesTo(Tail(entries))

\* C27: no pipelining.  When a message is read every earlier one has been
\* dispatched and its reply, if any, written: only the last message read can be
\* waiting for its dispatch, and the output is the replies to the messages in
\* the order of the messages, at most one for each.
C27_NoPipelining ==
  /\ \A i \in DOMAIN served : i < Len(served) => served[i].done
  /\ output = RepliesTo(served)

\* two requests were answered, the first before the second was read, each in
\* its own encoding
C27_Witness ==
  /\ Len(served) = 2
  /\ served[1].payload = Msg.FramedPing.payload /\ served[1].wrote # Nil
  /\ served[2].payload = Msg.LineToolsList.payload /\ served[2].wrote # Nil
  /\ output = served[1].wrote[1] \o served[2].wrote[1]

C29_NoCrash == serving # "crashed"

\* message i is a tools/call of a known tool whose arguments, an object or
\* nothing at all, leave out a field the tool's schema requires
OmitsRequired(i) ==
  /\ RequestOf(i).Method = Lit.MethodToolsCall
  /\ IsJSONObject(TrimSpace(RequestOf(i).Params))
  /\ LET ps == Members(TrimSpace(RequestOf(i).Params))
         name == StringField(ps, Lit.KeyName)
         args == TrimSpace(RawField(ps, Lit.KeyArguments))
     IN  /\ name.ok
         /\ args = << >> \/ IsJSONObject(args)
         /\ \E key \in RequiredFields(name.value) :
               IF args = << >> THEN TRUE ELSE MemberValue(Members(args), key) = Nil

\* C30: a tools/call whose arguments omit a field that the tool's input schema
\* lists as required is rejected as a tool-level error, and no Service
\* operation is invoked for it.
C30_RequiredFields ==
  \A i \in DOMAIN served :
     (Handled(i) /\ OmitsRequired(i)) =>
        /\ served[i].called = Nil
        /\ ResponseFailed(i)

\* C31: a failing index insert never loses a write.  Whenever Write runs with
\* the index present and the insert into the index failing, the write reports
\* no error, returns the entry it built, leaves the index as it was, and the
\* primary table holds the entry's row, found by a lookup of its id.
C31_IndexFailureKeepsWrite ==
  [][\A in \in Requests.FaultWrites :
       (ftsEnabled /\ Write(in, FALSE)) =>
         /\ ret'.op = "write" /\ ret'.err = ""
         /\ ret'.out = WriteRecord(in, IdOf(nextId + 1), now)
         /\ fts' = fts
         /\ RowById(mem', ret'.out.ID) = << RowOf(ret'.out) >>
         /\ scanMemoryRow(RowById(mem', ret'.out.ID)[1]).Content = in.Content]_vars

\* a write went through although its index insert failed: the index is
\* present and holds no row of the entry returned
C31_Witness ==
  /\ ftsEnabled
  /\ ret.op = "write" /\ ret.err = ""
  /\ ret.out.ID \notin RowIds(fts)
  /\ ret.out.ID \in RowIds(mem)

\* C32: deleting expired entries removes both rows.  After a sweep that removed
\* at least one entry, with the index present and its delete going through, the
\* index holds no row whose id the primary table lacks; and every entry a
\* search returns, as a candidate or as a result, has a row in the primary
\* table.
C32_SweepRemovesBothRows ==
  [][/\ (ftsEnabled /\ ExpireShort(TRUE) /\ ret'.out > 0) =>
          RowIds(fts') \subseteq RowIds(mem')
     /\ (ret'.op = "search" /\ ret'.err = "") =>
          /\ \A i \in DOMAIN ret'.out.cands :
                ret'.out.cands[i].Record.ID \in RowIds(mem')
          /\ \A i \in DOMAIN ret'.out.results :
                ret'.out.results[i].Record.ID \in RowIds(mem')]_vars

\* a sweep removed one of two entries and the index holds the row of the
\* other one only
C32_Witness ==
  /\ ftsEnabled
  /\ ret.op = "expire" /\ ret.err = "" /\ ret.out = 1
  /\ nextId = 2 /\ Len(mem) = 1 /\ Len(fts) = 1
  /\ RowIds(fts) = RowIds(mem)

\* C33: a failed sweep does not stop the background worker.  A sweep that
\* returns an error changes neither table and leaves the worker in its loop;
\* as long as the worker is in its loop a tick makes it sweep (the sweep is
\* enabled), after a failed sweep as well; and the worker leaves its loop only
\* once the context is cancelled.
C33_FailedSweepGoesOn ==
  /\ [][ExpireShortFails =>
          (sweeper' = "run" /\ mem' = mem /\ fts' = fts /\ ret'.err # "")]_vars
  /\ []((ret.op = "expire" /\ ret.err # "" /\ ~cancelled) =>
          (sweeper = "run" /\ ENABLED ExpireShort(TRUE) /\ ENABLED ExpireShortFails))
  /\ [][(sweeper = "run" /\ sweeper' = "stopped") => cancelled]_vars

\* a sweep has failed with an entry due that it left in the table, and the
\* worker is still in its loop
C33_Witness ==
  /\ ret.op = "expire" /\ ret.err = "ttl cleanup failed"
  /\ sweeper = "run" /\ ~cancelled
  /\ \E i \in DOMAIN mem : ExpireDue(mem[i], FormatTime(now))

\* the final score the service gives candidate c of the last search (times
\* 100), from the weights 0.60, 0.25 and 0.15
WeightedScore(c) ==
  60 * c.LexicalScore + 25 * recencyScore(ret.at, c.Record.CreatedAt)
    + 15 * ((c.Record.Importance * ScoreScale) \div 5)

\* the place of entry id among the candidates the store returned
PlaceOf(id) == CHOOSE i \in DOMAIN ret.out.cands : ret.out.cands[i].Record.ID = id

\* C34: ranking.  The results of a search are candidates of the store, each
\* with the score 0.60*lexical + 0.25*recency + 0.15*(importance/5), in
\* non-increasing order of that score; two results of equal score stand in the
\* order in which the store returned them; and the results are the first K of
\* that order: a candidate left out scores less than every result, or the same
\* as one and was returned by the store after it.
C34_RankedStable ==
  (ret.op = "search" /\ ret.err = "") =>
    LET res == ret.out.results
        cands == ret.out.cands
        k == EffectiveK(ret.in.K)
        shown == {res[i].Record.ID : i \in DOMAIN res}
    IN  /\ Len(res) = IF Len(cands) > k THEN k ELSE Len(cands)
        /\ \A i \in DOMAIN res :
              /\ \E j \in DOMAIN cands : cands[j].Record.ID = res[i].Record.ID
              /\ res[i].Score = WeightedScore(cands[PlaceOf(res[i].Record.ID)])
              /\ res[i].Score = 60 * res[i].LexicalScore + 25 * res[i].RecencyScore
                                  + 15 * res[i].ImportanceScore
        /\ \A i, j \in DOMAIN res :
              i < j => \/ res[i].Score > res[j].Score
                       \/ /\ res[i].Score = res[j].Score
                          /\ PlaceOf(res[i].Record.ID) < PlaceOf(res[j].Record.ID)
        /\ \A c \in DOMAIN cands :
              cands[c].Record.ID \notin shown =>
                \A i \in DOMAIN res :
                   \/ WeightedScore(cands[c]) < res[i].Score
                   \/ /\ WeightedScore(cands[c]) = res[i].Score
                      /\ PlaceOf(res[i].Record.ID) < c

\* a search for one result over candidates of which the first two score the
\* same and a later one scores more: the later one is the result
C34_Witness ==
  /\ ret.op = "search" /\ ret.err = "" /\ ret.in.K = 1
  /\ Len(ret.out.cands) = 3 /\ Len(ret.out.results) = 1
  /\ WeightedScore(ret.out.cands[1]) = WeightedScore(ret.out.cands[2])
  /\ WeightedScore(ret.out.cands[3]) > WeightedScore(ret.out.cands[1])
  /\ ret.out.results[1].Record.ID = ret.out.cands[3].Record.ID

\* the ranked results of the last pack that have a text to show and are the
\* first of their normalized form: their places in the ranking, in order
Deduplicated ==
  LET rs == ret.out.results
  IN  SelectSeq([i \in DOMAIN rs |-> i],
                LAMBDA i : /\ ShownText(rs[i].Record) # << >>
                           /\ \A j \in 1..(i - 1) :
                                 NormalForm(ShownText(rs[j].Record))
                                   # NormalForm(ShownText(rs[i].Record)))

\* the tokens the line of ranked result i is counted as
LineCost(i) == CeilQuarter(Len(PackLine(ret.out.results[i].Record)))

\* C35: the context pack is prefix-bounded.  The ids of a pack are those of a
\* prefix, in rank order, of the deduplicated candidates with a text; the lines
\* of the prefix fit the budget; and the prefix ends at the first candidate
\* whose line would take the total above the budget, whatever comes after it.
C35_PackIsPrefix ==
  (ret.op = "pack" /\ ret.err = "") =>
    LET rs == ret.out.results
        ids == ret.out.pack.MemoryIDs
        budget == IF ret.in.TokenBudget <= 0 THEN 512 ELSE ret.in.TokenBudget
        taken == SumSeq([q \in DOMAIN ids |-> LineCost(Deduplicated[q])])
    IN  /\ Len(ids) <= Len(Deduplicated)
        /\ \A q \in DOMAIN ids : ids[q] = rs[Deduplicated[q]].Record.ID
        /\ taken <= budget
        /\ Len(ids) < Len(Deduplicated) =>
              taken + LineCost(Deduplicated[Len(ids) + 1]) > budget

\* a pack that stopped at a line over the budget and left out a lower-ranked
\* candidate whose line would have fitted
C35_Witness ==
  /\ ret.op = "pack" /\ ret.err = ""
  /\ Len(ret.out.pack.MemoryIDs) = 1 /\ Len(Deduplicated) = 3
  /\ ret.out.pack.EstimatedTokens + LineCost(Deduplicated[2]) > ret.in.TokenBudget
  /\ ret.out.pack.EstimatedTokens + LineCost(Deduplicated[3]) <= ret.in.TokenBudget
  /\ ret.in.TokenBudget > 0

\* the substring scan answers the search of request in at this instant: the
\* index is not there, the query has no token, the query on the index failed
\* (indexFails) or it returned no row
ScanAnswers(in, indexFails) ==
  LET terms == tokenizeQueryTerms(TrimSpace(in.Query))
  IN  \/ ~ftsEnabled
      \/ terms = << >>
      \/ indexFails
      \/ searchFTS(mem, fts, in.Namespace, terms, NormalScope(in.Scope),
                   3 * EffectiveK(in.K), now) = << >>

\* the candidates are those of a substring scan for request in: the entries of
\* the namespace the store does not take as expired that hold every token of
\* the query in content or summary (letter case aside), each with the score
\* of the scan
ScanCandidates(cands, in) ==
  LET query == TrimSpace(in.Query)
      terms == tokenizeQueryTerms(query)
      Holds(row) ==
        \A k \in DOMAIN terms :
           LikeContains(row.content, terms[k]) \/ LikeContains(row.summary, terms[k])
  IN    /\ \A i \in DOMAIN cands :
            /\ cands[i].LexicalScore = IF query # << >> THEN (2 * ScoreScale) \div 5
                                       ELSE ScoreScale \div 4
            /\ \E r \in DOMAIN mem :
                  /\ mem[r].id = cands[i].Record.ID
                  /\ mem[r].namespace = in.Namespace
                  /\ Holds(mem[r])
        /\ Len(cands) <= 3 * EffectiveK(in.K)
        /\ \A i, j \in DOMAIN cands : cands[i].Record.ID = cands[j].Record.ID => i = j
        /\ (Len(cands) < 3 * EffectiveK(in.K)) =>
              \A r \in DOMAIN mem :
                 (/\ mem[r].namespace = in.Namespace
                  /\ NotExpiredAt(mem[r], FormatTime(now))
                  /\ (NormalScope(in.Scope) # << >> => mem[r].scope = NormalScope(in.Scope))
                  /\ Holds(mem[r])
                  /\ (terms = << >> /\ query # << >>
                        => LikeContains(mem[r].content, query)
                             \/ LikeContains(mem[r].summary, query)))
                 => \E i \in DOMAIN cands : cands[i].Record.ID = mem[r].id

\* C36: candidate search falls back to the substring scan exactly when the
\* index is unavailable, the query has no token, or the query on the index
\* returned no row or failed; a failure of the index is not passed on.  What
\* the scan returns holds every token in content or summary, is ordered by
\* createdAt descending, and scores 0.4 throughout for a non-empty trimmed
\* query and 0.25 for an empty one; otherwise the rows of the index are
\* returned.
C36_FallbackExactly ==
  [][\A in \in Requests.FaultSearches, indexFails \in BOOLEAN :
       (Search(in, indexFails) /\ serving' = serving) =>
         /\ ret'.err = ""
         /\ IF ScanAnswers(in, indexFails)
            THEN /\ ScanCandidates(ret'.out.cands, in)
                 /\ \A i, j \in DOMAIN ret'.out.cands :
                       i < j => ret'.out.cands[i].Record.CreatedAt
                                  >= ret'.out.cands[j].Record.CreatedAt
            ELSE ret'.out.cands =
                   searchFTS(mem, fts, in.Namespace, tokenizeQueryTerms(TrimSpace(in.Query)),
                             NormalScope(in.Scope), 3 * EffectiveK(in.K), now)]_vars

\* C37: for every short entry a Write returns, expiresAt is createdAt plus the
\* effective TTL (ttl_seconds when positive, else default_short_ttl_hours
\* hours), and so later than createdAt, however large ttl_seconds is.
C37_ExpiryIsCreationPlusTTL ==
  (ret.op = "write" /\ ret.err = "" /\ ret.out.Scope = ScopeShort) =>
    LET seconds == IF ret.in.TTLSeconds > 0 THEN ret.in.TTLSeconds
                   ELSE DefaultShortTTLHours * SecondsPerHour
    IN  /\ ret.out.ExpiresAt = Some(ret.out.CreatedAt + seconds * TicksPerSecond)
        /\ ret.out.ExpiresAt[1] > ret.out.CreatedAt

\* C38: Promote beside the sweep.  However the sweep's steps fall around the
\* UPDATE and the lookup of a Promote: a Promote whose entry is gone at its
\* UPDATE reports that the memory was not found; between the UPDATE and the
\* lookup the entry is stored, long and without expiry; a Promote ends either
\* with an error of the UPDATE or of validation (never of the lookup), or
\* with success, and then the entry is stored, long, without expiry, and is
\* the record returned; and no later step removes an entry a Promote has
\* updated.
C38_PromoteBesideSweep ==
  /\ [](pend # Nil =>
          \E i \in DOMAIN mem :
             /\ mem[i].id = pend[1].in.MemoryID
             /\ mem[i].scope = ScopeLong /\ mem[i].expires_at = Nil)
  /\ []((ret.op = "promote" /\ ret.err = "") =>
          \E i \in DOMAIN mem :
             /\ mem[i].id = ret.in.MemoryID
             /\ mem[i].scope = ScopeLong /\ mem[i].expires_at = Nil
             /\ ret.out = scanMemoryRow(mem[i])
             /\ ret.out.Scope = ScopeLong /\ ret.out.ExpiresAt = Nil)
  /\ []((ret.op = "promote" /\ ret.err # "") =>
          /\ ret.err \in {"memory not found", "memory_id is required",
                          "only target_scope=long is supported"}
          /\ ret.err = "memory not found" => ret.in.MemoryID \notin RowIds(mem))
  /\ [][(/\ pend = Nil /\ ret'.op = "promote" /\ ret' # ret
          /\ TrimSpace(ret'.in.MemoryID) # << >>
          /\ ret'.in.TargetScope \in {<< >>, ScopeLong}
          /\ ret'.in.MemoryID \notin RowIds(mem))
            => ret'.err = "memory not found"]_vars
  /\ [][\A i \in DOMAIN mem :
          (mem[i].promoted_at # Nil \/ (pend' # Nil /\ pend'[1].in.MemoryID = mem[i].id))
            => mem[i].id \in RowIds(mem')]_vars

\* a sweep ran between the UPDATE and the lookup of a Promote on an entry that
\* was due before the UPDATE, removed another entry, and left the promoted one
C38_Witness ==
  /\ pend # Nil
  /\ ret.op = "expire" /\ ret.out = 1
  /\ ExpireDue(pend[1].pre[1], FormatTime(now))
  /\ pend[1].in.MemoryID \in RowIds(mem)

\* the last search, if it went well, asked for the namespace and a scope that
\* row has, and for a word of its content
SearchAsksFor(row) ==
  /\ ret.op = "search" /\ ret.err = ""
  /\ ret.in.Namespace = row.namespace
  /\ NormalScope(ret.in.Scope) \in {<< >>, row.scope}
  /\ IsWordOf(TrimSpace(ret.in.Query), row.content)

\* C39: Promote does not check expiry.  A short entry whose expiresAt is at or
\* before now and that no sweep has deleted yet is not returned by a search;
\* a Promote on its id goes through all the same; afterwards the entry is
\* long and without expiry, a search that asks for it returns it, and no
\* step removes it.
C39_PromoteOfExpired ==
  /\ []((ret.op = "search" /\ ret.err = "") =>
          \A i \in DOMAIN mem :
             DueAt(mem[i], ret.at) =>
               \A k \in DOMAIN ret.out.results : ret.out.results[k].Record.ID # mem[i].id)
  /\ [](pend # Nil =>
          \E i \in DOMAIN mem :
             /\ mem[i].id = pend[1].in.MemoryID
             /\ mem[i].scope = ScopeLong /\ mem[i].expires_at = Nil)
  /\ []((ret.op = "promote" /\ ret.pre # << >> /\ DueAt(ret.pre[1], ret.at)
           /\ ret.in.TargetScope \in {<< >>, ScopeLong})
          => (ret.err = "" /\ ret.out.Scope = ScopeLong /\ ret.out.ExpiresAt = Nil))
  /\ [](\A i \in DOMAIN mem :
          (mem[i].promoted_at # Nil /\ SearchAsksFor(mem[i])) =>
            \E k \in DOMAIN ret.out.results : ret.out.results[k].Record.ID = mem[i].id)
  /\ [][\A i \in DOMAIN mem :
          mem[i].promoted_at # Nil => mem[i].id \in RowIds(mem')]_vars

\* row is a stored entry that request in asks for by substring and that the
\* index does not match: it is of the namespace and the scope, has not expired
\* at the instant t, holds every token of the query in content or summary,
\* and has no row in the index, or one without one of the tokens
OnlyBySubstring(row, in, t) ==
  LET terms == tokenizeQueryTerms(TrimSpace(in.Query))
  IN  /\ row.namespace = in.Namespace
      /\ (NormalScope(in.Scope) # << >> => row.scope = NormalScope(in.Scope))
      /\ (row.expires_at = Nil \/ ParseTime(row.expires_at[1]) > t)
      /\ \A k \in DOMAIN terms :
            LikeContains(row.content, terms[k]) \/ LikeContains(row.summary, terms[k])
      /\ \A f \in DOMAIN fts : fts[f].id = row.id => ~FtsMatch(fts[f], terms)

\* C40: when the query on the index returns a row, the candidates are the rows
\* of the index and nothing else: a stored entry of the namespace that has not
\* expired and holds every token as a substring, but is not matched by the
\* index, is left out; the same query returns that entry when the index
\* returns no row.
C40_IndexRowsOnly ==
  [][\A in \in Requests.FaultSearches :
       LET terms == tokenizeQueryTerms(TrimSpace(in.Query))
           viaIndex == searchFTS(mem, fts, in.Namespace, terms, NormalScope(in.Scope),
                                 3 * EffectiveK(in.K), now)
           returned == {ret'.out.cands[i].Record.ID : i \in DOMAIN ret'.out.cands}
       IN  (Search(in, FALSE) /\ serving' = serving /\ ftsEnabled /\ terms # << >>) =>
             /\ ret'.err = ""
             /\ viaIndex # << >> =>
                  /\ ret'.out.cands = viaIndex
                  /\ \A r \in DOMAIN mem :
                        OnlyBySubstring(mem[r], in, now) => mem[r].id \notin returned
             /\ viaIndex = << >> =>
                  \A r \in DOMAIN mem :
                     OnlyBySubstring(mem[r], in, now) => mem[r].id \in returned]_vars

====
